---- MODULE Spec2Model ----
(***************************************************************************)
(* Model of the Hovercode HTTP transport (hovercode/base_client.py):       *)
(* construction and configuration resolution, the verb methods, the retry  *)
(* loop of BaseClient._request with its two failure channels, exponential  *)
(* backoff, response decoding and the mapping of HTTP errors to the typed  *)
(* exception hierarchy of hovercode/exceptions.py.                          *)
(*                                                                         *)
(* Representation:                                                         *)
(*   - a Python str is a sequence of one-character strings;                *)
(*   - a Python float holding seconds is an integer number of              *)
(*     milliseconds (0.5 s = 500); multiplying by 2^i is exact in both;    *)
(*   - a Python value is a record tagged by its type in field t.           *)
(***************************************************************************)
EXTENDS Integers, Sequences, FiniteSets, TLC

VARIABLES
    environ,                \* os.environ: the four HOVERCODE_* variables
    probe,                  \* a single function under study: its arguments and its value
    init_args,              \* the arguments __init__ was called with, or PyNone
    phase,                  \* "new" | "ready" | "failed": BaseClient.__init__
    init_error,             \* the exception __init__ raised, or PyNone
    _base_url,              \* self._base_url
    _timeout_seconds,       \* self._timeout_seconds (ms)
    _max_retries,           \* self._max_retries
    _retry_backoff_seconds, \* self._retry_backoff_seconds (ms)
    session_headers,        \* self._session.headers
    pc,                     \* position of the running call in _request
    call,                   \* the arguments of the running call and its url/timeout locals
    attempt,                \* the loop variable of _request
    response,               \* outcome of the latest session.request
    wire,                   \* the keyword arguments of the latest session.request
    requests_issued,        \* number of session.request calls made by the running call
    sleeps,                 \* the delays time.sleep accepted during the running call, in order
    outcomes,               \* per finished attempt of the running call: "exception" | "response"
    result,                 \* how the call ended: returned value or raised exception
    session_state,          \* self._session: its connection pools and the calls it got
    hovercodes_args,        \* the arguments HovercodesClient.__init__ was called with
    op,                     \* the running or finished HovercodesClient operation
    facade,                 \* the HovercodeClient facade: its fields, or PyNone
    peer                    \* the frame of a second call running on another thread, or PyNone

config_vars == <<init_args, phase, init_error, _base_url, _timeout_seconds, _max_retries,
                 _retry_backoff_seconds, session_headers>>
call_vars == <<pc, call, attempt, response, wire, requests_issued, sleeps, outcomes,
               result>>
upper_vars == <<hovercodes_args, op, facade, peer>>
vars == <<environ, probe, config_vars, call_vars, session_state, upper_vars>>

-----------------------------------------------------------------------------
(* Bounds of the model.                                                    *)

\* Largest explicit max_retries argument tried.
MaxRetriesArg == 1
UrlMaxLen == 3
MaxCloses == 2

-----------------------------------------------------------------------------
(* Python values.                                                          *)

PyNone == [t |-> "None"]
PyInt(n) == [t |-> "int", v |-> n]
PyFloat(ms) == [t |-> "float", ms |-> ms]
PyStr(s) == [t |-> "str", s |-> s]
PyList(n) == [t |-> "list", len |-> n]
Absent == [t |-> "absent"]
\* A dict: its values under the keys detail, error and message (Absent when the
\* key is missing) and the number of its other keys.
PyDict(detail, error, message, others) ==
    [t |-> "dict", others |-> others,
     d |-> [detail |-> detail, error |-> error, message |-> message]]
EmptyDict == PyDict(Absent, Absent, Absent, 0)

Whitespace == {" ", "\t", "\n"}
DigitChars == <<"0", "1", "2", "3", "4", "5", "6", "7", "8", "9">>
IsDigit(c) == \E i \in 1..10 : DigitChars[i] = c
DigitVal(c) == (CHOOSE i \in 1..10 : DigitChars[i] = c) - 1

\* str(n) for an int n
RECURSIVE NatStr(_)
NatStr(n) ==
    IF n < 10 THEN <<DigitChars[n + 1]>>
    ELSE NatStr(n \div 10) \o <<DigitChars[(n % 10) + 1]>>
IntStr(n) == IF n < 0 THEN <<"-">> \o NatStr(-n) ELSE NatStr(n)

\* str.lstrip(chars) / str.rstrip(chars) / str.strip()
RECURSIVE LStrip(_, _)
LStrip(s, chars) ==
    IF s # <<>> /\ Head(s) \in chars THEN LStrip(Tail(s), chars) ELSE s
RECURSIVE RStrip(_, _)
RStrip(s, chars) ==
    IF s # <<>> /\ s[Len(s)] \in chars
    THEN RStrip(SubSeq(s, 1, Len(s) - 1), chars) ELSE s
Strip(s) == LStrip(RStrip(s, Whitespace), Whitespace)

\* Truthiness of an Optional[str]
Truthy(v) == v.t = "str" /\ v.s # <<>>

-----------------------------------------------------------------------------
(* Exceptions (hovercode/exceptions.py).                                   *)

ApiError(cls, message, status_code, response_data) ==
    [cls |-> cls, message |-> message, status_code |-> status_code,
     response_data |-> response_data]

\* An exception that is not an ApiError
PyException(cls) == [cls |-> cls]

\* The class each exception class derives from.
BaseOf(cls) ==
    CASE cls = "WebhookSignatureError" -> "ValidationError"
      [] cls \in {"AuthenticationError", "ValidationError", "NotFoundError",
                  "RateLimitError", "ServerError", "NetworkError"} -> "ApiError"
      [] OTHER -> "Exception"

IsSubclass(cls, base) ==
    \/ cls = base
    \/ BaseOf(cls) = base
    \/ BaseOf(BaseOf(cls)) = base
    \/ base = "Exception"

NoResult == [kind |-> "none"]
NoResponse == [kind |-> "none"]
Returned(value) == [kind |-> "return", value |-> value]
Raised(exc) == [kind |-> "raise", exc |-> exc]

-----------------------------------------------------------------------------
(* String literals of base_client.py.                                      *)

ApplicationJson ==
    <<"a", "p", "p", "l", "i", "c", "a", "t", "i", "o", "n", "/", "j", "s",
      "o", "n">>
\* Faulty variant of the scheme name: the OAuth one.
BearerPrefix == <<"B", "e", "a", "r", "e", "r", " ">>
TokenPrefix == <<"T", "o", "k", "e", "n", " ">>
MethodGET == <<"G", "E", "T">>
MethodPOST == <<"P", "O", "S", "T">>
MethodPUT == <<"P", "U", "T">>
MethodPATCH == <<"P", "A", "T", "C", "H">>
MethodDELETE == <<"D", "E", "L", "E", "T", "E">>
BaseUrlMessage ==
    <<"b", "a", "s", "e", "_", "u", "r", "l", " ", "m", "u", "s", "t", " ",
      "b", "e", " ", "a", " ", "n", "o", "n", "-", "e", "m", "p", "t", "y",
      " ", "s", "t", "r", "i", "n", "g", ".">>
TokenMessage ==
    <<"M", "i", "s", "s", "i", "n", "g", " ", "H", "o", "v", "e", "r", "c",
      "o", "d", "e", " ", "A", "P", "I", " ", "t", "o", "k", "e", "n", ".",
      " ", "P", "r", "o", "v", "i", "d", "e", " ", "a", "p", "i", "_", "t",
      "o", "k", "e", "n", "=", " ", "o", "r", " ", "s", "e", "t", " ", "H",
      "O", "V", "E", "R", "C", "O", "D", "E", "_", "A", "P", "I", "_", "T",
      "O", "K", "E", "N", ".">>
NetworkErrorPrefix ==
    <<"N", "e", "t", "w", "o", "r", "k", " ", "e", "r", "r", "o", "r", " ",
      "c", "a", "l", "l", "i", "n", "g", " ">>
UnexpectedExitPrefix ==
    <<"U", "n", "e", "x", "p", "e", "c", "t", "e", "d", " ", "r", "e", "t",
      "r", "y", " ", "l", "o", "o", "p", " ", "e", "x", "i", "t", " ", "f",
      "o", "r", " ">>
FailedInfix == <<" ", "f", "a", "i", "l", "e", "d", " ", "(">>

\* Faulty variants of the retryable set: 503 forgotten; 429 added.
RetryableWithout503 == {500, 502, 504}
RetryableWith429 == {429, 500, 502, 503, 504}
_RETRYABLE_STATUS_CODES == {500, 502, 503, 504}

-----------------------------------------------------------------------------
(* Environment variables and their parsing.                                *)

\* Value of a non-empty run of decimal digits.
RECURSIVE DigitsVal(_)
DigitsVal(s) ==
    IF s = <<>> THEN 0
    ELSE 10 * DigitsVal(SubSeq(s, 1, Len(s) - 1)) + DigitVal(s[Len(s)])

AllDigits(s) == \A i \in 1..Len(s) : IsDigit(s[i])
HasSign(s) == s # <<>> /\ Head(s) \in {"+", "-"}
Unsigned(s) == IF HasSign(s) THEN Tail(s) ELSE s
Signed(s, n) == IF HasSign(s) /\ Head(s) = "-" THEN -n ELSE n

\* int(raw): surrounding whitespace, an optional sign, one or more digits.
\* ok = FALSE stands for ValueError.
ParseInt(raw) ==
    LET s == Strip(raw)
        u == Unsigned(s)
    IN  IF u # <<>> /\ AllDigits(u)
        THEN [ok |-> TRUE, v |-> Signed(s, DigitsVal(u))]
        ELSE [ok |-> FALSE, v |-> 0]

\* Position of the first "." in s, or 0.
DotAt(s) ==
    IF \E i \in 1..Len(s) : s[i] = "."
    THEN CHOOSE i \in 1..Len(s) : s[i] = "." /\ \A j \in 1..(i - 1) : s[j] # "."
    ELSE 0

\* The first three fractional digits as thousandths.
Millis(f) ==
    LET d(i) == IF i <= Len(f) THEN DigitVal(f[i]) ELSE 0
    IN  100 * d(1) + 10 * d(2) + d(3)

\* float(raw) in milliseconds, for decimal literals "d", "d.d", ".d", "d."
\* (no exponent, inf or nan).  ok = FALSE stands for ValueError.
ParseFloat(raw) ==
    LET s == Strip(raw)
        u == Unsigned(s)
        k == DotAt(u)
        ip == IF k = 0 THEN u ELSE SubSeq(u, 1, k - 1)
        fp == IF k = 0 THEN <<>> ELSE SubSeq(u, k + 1, Len(u))
    IN  IF /\ AllDigits(ip)
           /\ AllDigits(fp)
           /\ (ip # <<>> \/ fp # <<>>)
        THEN [ok |-> TRUE, v |-> Signed(s, 1000 * DigitsVal(ip) + Millis(fp))]
        ELSE [ok |-> FALSE, v |-> 0]

\* BaseClient._get_env_float
_get_env_float(env, suffix, default) ==
    LET raw == env[suffix]
    IN  IF raw = PyNone THEN default
        ELSE IF ParseFloat(raw.s).ok THEN ParseFloat(raw.s).v ELSE default

\* Faulty variant of the int lookup: an unparseable value is read as 0.
GetEnvIntWithoutFallback(env, suffix, default) ==
    LET raw == env[suffix]
    IN  IF raw = PyNone THEN default
        ELSE IF ParseInt(raw.s).ok THEN ParseInt(raw.s).v ELSE 0

\* BaseClient._get_env_int
_get_env_int(env, suffix, default) ==
    LET raw == env[suffix]
    IN  IF raw = PyNone THEN default
        ELSE IF ParseInt(raw.s).ok THEN ParseInt(raw.s).v ELSE default

Env(token, timeout, retries, backoff) ==
    [API_TOKEN |-> token, TIMEOUT_SECONDS |-> timeout,
     MAX_RETRIES |-> retries, RETRY_BACKOFF_SECONDS |-> backoff]

\* The process environments the model starts from.
Environments ==
    { Env(PyNone, PyNone, PyNone, PyNone),
      Env(PyStr(<<"e">>), PyStr(<<"2", ".", "5">>), PyStr(<<" ", "2", " ">>),
          PyStr(<<"0", ".", "2", "5">>)),
      Env(PyStr(<<>>), PyStr(<<"a", "b", "c">>), PyStr(<<"1", ".", "5">>),
          PyStr(<<>>)),
      Env(PyStr(<<"e">>), PyNone, PyStr(<<"-", "1">>), PyStr(<<"0">>)) }

-----------------------------------------------------------------------------
(* Construction: BaseClient.__init__.                                      *)

ApiTokenArgs == {PyNone, PyStr(<<"t">>)}
BaseUrlArgs == {<<>>, <<"h">>, <<"h", "/">>}
TimeoutArgs == {PyNone}
MaxRetriesArgs == {PyNone} \cup {PyInt(n) : n \in -1..MaxRetriesArg}
\* time.sleep accepts only non-negative delays; the bases drawn are non-negative.
BackoffArgs == {PyNone, PyFloat(1000), PyFloat(-1000)}

\* requests.Session() before __init__ touches it.
\* requests.Session(): no pooled connection, nothing called on it yet
NewSession == [pool |-> "empty", used |-> FALSE, close_calls |-> 0]

FreshHeaders == [Accept |-> PyStr(<<"*", "/", "*">>), Authorization |-> PyNone]

DefaultTimeoutSeconds == 10000
DefaultMaxRetries == 3
DefaultRetryBackoffSeconds == 500

\* Faulty variant of the token choice: the environment wins over the argument.
EnvironmentTokenFirst(api_token) ==
    IF Truthy(environ.API_TOKEN) THEN environ.API_TOKEN ELSE api_token

\* api_token or os.getenv("HOVERCODE_API_TOKEN")
ResolvedToken(api_token) ==
    IF Truthy(api_token) THEN api_token ELSE environ.API_TOKEN

ResolvedMaxRetries(max_retries) ==
    IF max_retries # PyNone THEN max_retries.v
    ELSE _get_env_int(environ, "MAX_RETRIES", DefaultMaxRetries)

Init ==
    /\ environ \in Environments
    /\ probe = PyNone
    /\ init_args = PyNone
    /\ phase = "new"
    /\ init_error = PyNone
    /\ _base_url = <<>>
    /\ _timeout_seconds = 0
    /\ _max_retries = 0
    /\ _retry_backoff_seconds = 0
    /\ session_headers = FreshHeaders
    /\ pc = "idle"
    /\ call = PyNone
    /\ attempt = 0
    /\ response = NoResponse
    /\ wire = PyNone
    /\ requests_issued = 0
    /\ sleeps = <<>>
    /\ outcomes = <<>>
    /\ result = NoResult
    /\ session_state = NewSession
    /\ hovercodes_args = PyNone
    /\ op = PyNone
    /\ facade = PyNone
    /\ peer = PyNone

\* Faulty variant of the constructor: the session headers are touched before
\* the token is checked.
InitUpdatingHeadersFirst(api_token, base_url, timeout_seconds, max_retries, retry_backoff_seconds) ==
    /\ init_args' = [api_token |-> api_token, base_url |-> base_url,
                     timeout_seconds |-> timeout_seconds, max_retries |-> max_retries,
                     retry_backoff_seconds |-> retry_backoff_seconds]
    /\ IF base_url = <<>>
       THEN /\ phase' = "failed"
            /\ init_error' = ApiError("ValidationError", BaseUrlMessage, PyNone, PyNone)
            /\ UNCHANGED <<_base_url, _timeout_seconds, _max_retries,
                           _retry_backoff_seconds, session_headers>>
       ELSE IF ~Truthy(ResolvedToken(api_token))
       THEN /\ phase' = "failed"
            /\ init_error' = ApiError("AuthenticationError", TokenMessage, PyNone, PyNone)
            /\ session_headers' = [session_headers EXCEPT !.Accept = PyStr(ApplicationJson)]
            /\ UNCHANGED <<_base_url, _timeout_seconds, _max_retries,
                           _retry_backoff_seconds>>
       ELSE /\ phase' = "ready"
            /\ init_error' = PyNone
            /\ _base_url' = RStrip(base_url, {"/"})
            /\ _timeout_seconds' =
                   IF timeout_seconds # PyNone THEN timeout_seconds.ms
                   ELSE _get_env_float(environ, "TIMEOUT_SECONDS", DefaultTimeoutSeconds)
            /\ _max_retries' = ResolvedMaxRetries(max_retries)
            /\ _retry_backoff_seconds' =
                   IF retry_backoff_seconds # PyNone THEN retry_backoff_seconds.ms
                   ELSE _get_env_float(environ, "RETRY_BACKOFF_SECONDS",
                                       DefaultRetryBackoffSeconds)
            /\ session_headers' =
                   [session_headers EXCEPT
                       !.Accept = PyStr(ApplicationJson),
                       !.Authorization = PyStr(TokenPrefix \o ResolvedToken(api_token).s)]
    /\ session_state' = NewSession
    /\ UNCHANGED <<environ, probe, call_vars>>
\* BaseClient.__init__
__init__(api_token, base_url, timeout_seconds, max_retries, retry_backoff_seconds) ==
    /\ init_args' = [api_token |-> api_token, base_url |-> base_url,
                     timeout_seconds |-> timeout_seconds, max_retries |-> max_retries,
                     retry_backoff_seconds |-> retry_backoff_seconds]
    /\ IF base_url = <<>>
       THEN /\ phase' = "failed"
            /\ init_error' = ApiError("ValidationError", BaseUrlMessage, PyNone, PyNone)
            /\ UNCHANGED <<_base_url, _timeout_seconds, _max_retries,
                           _retry_backoff_seconds, session_headers>>
       ELSE IF ~Truthy(ResolvedToken(api_token))
       THEN /\ phase' = "failed"
            /\ init_error' = ApiError("AuthenticationError", TokenMessage, PyNone, PyNone)
            /\ UNCHANGED <<_base_url, _timeout_seconds, _max_retries,
                           _retry_backoff_seconds, session_headers>>
       ELSE /\ phase' = "ready"
            /\ init_error' = PyNone
            /\ _base_url' = RStrip(base_url, {"/"})
            /\ _timeout_seconds' =
                   IF timeout_seconds # PyNone THEN timeout_seconds.ms
                   ELSE _get_env_float(environ, "TIMEOUT_SECONDS", DefaultTimeoutSeconds)
            /\ _max_retries' = ResolvedMaxRetries(max_retries)
            /\ _retry_backoff_seconds' =
                   IF retry_backoff_seconds # PyNone THEN retry_backoff_seconds.ms
                   ELSE _get_env_float(environ, "RETRY_BACKOFF_SECONDS",
                                       DefaultRetryBackoffSeconds)
            /\ session_headers' =
                   [session_headers EXCEPT
                       !.Accept = PyStr(ApplicationJson),
                       !.Authorization = PyStr(TokenPrefix \o ResolvedToken(api_token).s)]
    /\ session_state' = NewSession
    /\ UNCHANGED <<environ, probe, call_vars>>

Construct ==
    \E api_token \in ApiTokenArgs, base_url \in BaseUrlArgs,
       timeout_seconds \in TimeoutArgs, max_retries \in MaxRetriesArgs,
       retry_backoff_seconds \in BackoffArgs :
        /\ phase = "new"
        /\ __init__(api_token, base_url, timeout_seconds, max_retries,
                    retry_backoff_seconds)
        /\ UNCHANGED upper_vars

-----------------------------------------------------------------------------
(* Responses, decoding and error mapping.                                  *)

BodyOk == <<"{", "\"", "o", "k", "\"", ":", " ", "t", "r", "u", "e", "}">>
BodyDetail ==
    <<"{", "\"", "d", "e", "t", "a", "i", "l", "\"", ":", " ", "\"", "b",
      "a", "d", " ", "f", "i", "e", "l", "d", "\"", "}">>
BodyList == <<"[", "1", "]">>
BodyText == <<"o", "o", "p", "s">>
BodyNull == <<"n", "u", "l", "l">>
Bodies == {BodyOk, BodyDetail, BodyList, BodyText, BodyNull}

\* Statuses the server answers with: each mapped status, each retryable one,
\* and the edges of the 2xx and 5xx ranges.
StatusCodes == {200, 204, 299, 300, 400, 401, 404, 418, 429,
                500, 501, 502, 503, 504, 599}

\* requests.exceptions.RequestException descriptions
ExceptionTexts == {<<"b", "o", "o", "m">>}

HttpResponse(status_code, text) ==
    [kind |-> "response", status_code |-> status_code, text |-> text]
TransportFailure(desc) == [kind |-> "exception", desc |-> desc]

\* response.json() on the bodies above; ok = FALSE stands for ValueError.
JsonDecode(text) ==
    CASE text = BodyOk -> [ok |-> TRUE, v |-> PyDict(Absent, Absent, Absent, 1)]
      [] text = BodyDetail ->
            [ok |-> TRUE,
             v |-> PyDict(PyStr(<<"b", "a", "d", " ", "f", "i", "e", "l", "d">>),
                          Absent, Absent, 0)]
      [] text = BodyList -> [ok |-> TRUE, v |-> PyList(1)]
      [] text = BodyNull -> [ok |-> TRUE, v |-> PyNone]
      [] OTHER -> [ok |-> FALSE, v |-> PyNone]

\* Faulty variants of the decoding: no special case for 204; None instead of
\* the text when the body is not JSON.
ParseWithout204(resp) ==
    IF JsonDecode(resp.text).ok THEN JsonDecode(resp.text).v ELSE PyStr(resp.text)
ParseWithoutTextFallback(resp) ==
    IF resp.status_code = 204 THEN EmptyDict
    ELSE IF JsonDecode(resp.text).ok THEN JsonDecode(resp.text).v
    ELSE PyNone

\* BaseClient._parse_response_data
_parse_response_data(resp) ==
    IF resp.status_code = 204 THEN EmptyDict
    ELSE IF JsonDecode(resp.text).ok THEN JsonDecode(resp.text).v
    ELSE PyStr(resp.text)

\* Faulty variant of the string test: any string of length >= 1 is usable.
NonEmptyString(value) == value.t = "str" /\ value.s # <<>>
\* isinstance(value, str) and value.strip()
UsableString(value) == value.t = "str" /\ Strip(value.s) # <<>>

FailedHead(status_code, method, url) ==
    method \o <<" ">> \o url \o FailedInfix \o IntStr(status_code) \o <<")">>

\* Faulty variants of the message: message looked up before error; the bare
\* message without its final period.
ExtractMessageWrongOrder(status_code, response_data, method, url) ==
    LET head == FailedHead(status_code, method, url)
        with(value) == head \o <<":", " ">> \o value
        bare == head \o <<".">>
    IN  IF response_data.t = "dict"
        THEN IF UsableString(response_data.d.detail)
             THEN with(response_data.d.detail.s)
             ELSE IF UsableString(response_data.d.message)
             THEN with(response_data.d.message.s)
             ELSE IF UsableString(response_data.d.error)
             THEN with(response_data.d.error.s)
             ELSE bare
        ELSE IF UsableString(response_data) THEN with(response_data.s)
        ELSE bare
ExtractMessageWithoutPeriod(status_code, response_data, method, url) ==
    LET head == FailedHead(status_code, method, url)
        with(value) == head \o <<":", " ">> \o value
    IN  IF response_data.t = "dict"
        THEN IF UsableString(response_data.d.detail)
             THEN with(response_data.d.detail.s)
             ELSE IF UsableString(response_data.d.error)
             THEN with(response_data.d.error.s)
             ELSE IF UsableString(response_data.d.message)
             THEN with(response_data.d.message.s)
             ELSE head
        ELSE IF UsableString(response_data) THEN with(response_data.s)
        ELSE head

\* BaseClient._extract_error_message
_extract_error_message(status_code, response_data, method, url) ==
    LET head == FailedHead(status_code, method, url)
        with(value) == head \o <<":", " ">> \o value
        bare == head \o <<".">>
    IN  IF response_data.t = "dict"
        THEN IF UsableString(response_data.d.detail)
             THEN with(response_data.d.detail.s)
             ELSE IF UsableString(response_data.d.error)
             THEN with(response_data.d.error.s)
             ELSE IF UsableString(response_data.d.message)
             THEN with(response_data.d.message.s)
             ELSE bare
        ELSE IF UsableString(response_data) THEN with(response_data.s)
        ELSE bare

\* Faulty variant of the class table: the 429 branch is missing.
ErrorClassOfWithout429(status_code) ==
    IF status_code = 400 THEN "ValidationError"
    ELSE IF status_code = 401 THEN "AuthenticationError"
    ELSE IF status_code = 404 THEN "NotFoundError"
    ELSE IF 500 <= status_code /\ status_code <= 599 THEN "ServerError"
    ELSE "ApiError"

\* The exception class chosen by BaseClient._map_http_error
ErrorClassOf(status_code) ==
    IF status_code = 400 THEN "ValidationError"
    ELSE IF status_code = 401 THEN "AuthenticationError"
    ELSE IF status_code = 404 THEN "NotFoundError"
    ELSE IF status_code = 429 THEN "RateLimitError"
    ELSE IF 500 <= status_code /\ status_code <= 599 THEN "ServerError"
    ELSE "ApiError"

\* Faulty variant of the mapping: the payload is not attached.
MapHttpErrorWithoutPayload(status_code, response_data, method, url) ==
    ApiError(ErrorClassOf(status_code),
             _extract_error_message(status_code, response_data, method, url),
             PyInt(status_code), PyNone)

\* BaseClient._map_http_error
_map_http_error(status_code, response_data, method, url) ==
    ApiError(ErrorClassOf(status_code),
             _extract_error_message(status_code, response_data, method, url),
             PyInt(status_code), response_data)

-----------------------------------------------------------------------------
(* The verb methods and BaseClient._request.                               *)

\* An argument object whose content the transport only passes through.
Obj(name) == [t |-> "obj", name |-> name]

Args(endpoint, params, json_data, data, files, timeout_seconds) ==
    [endpoint |-> endpoint, params |-> params, json_data |-> json_data,
     data |-> data, files |-> files, timeout_seconds |-> timeout_seconds]

\* Argument lists tried with get and delete.
QueryArgs ==
    { Args(<<"x">>, PyNone, PyNone, PyNone, PyNone, PyNone),
      Args(<<"/", "x">>, Obj("params"), PyNone, PyNone, PyNone, PyFloat(0)) }

\* Argument lists tried with post, put and patch.
BodyArgs ==
    { Args(<<"x">>, PyNone, Obj("json_data"), PyNone, PyNone, PyNone),
      Args(<<"x">>, PyNone, PyNone, Obj("data"), Obj("files"), PyNone),
      Args(<<"/", "x">>, Obj("params"), Obj("json_data"), PyNone, Obj("files"),
           PyFloat(0)) }

\* Faulty variant of the backoff: linear instead of exponential growth.
LinearBackoff(a) == _retry_backoff_seconds * (a + 1)
\* BaseClient._sleep_backoff: the delay handed to time.sleep
_sleep_backoff(a) == _retry_backoff_seconds * (2 ^ a)

NetworkErrorExhausted(method, url, desc) ==
    ApiError("NetworkError",
             NetworkErrorPrefix \o method \o <<" ">> \o url \o <<":", " ">> \o desc,
             PyNone, PyNone)

NetworkErrorLoopExit(method, url) ==
    ApiError("NetworkError", UnexpectedExitPrefix \o method \o <<" ">> \o url,
             PyNone, PyNone)

\* Faulty variants of the retry test: one retry too few; one too many.
RetryAllowedOffByOne(a) == a + 1 < _max_retries
RetryAllowedInclusive(a) == a <= _max_retries
\* attempt < self._max_retries: another attempt is allowed after index a
RetryAllowed(a) == a < _max_retries

\* Faulty variant of the success test: 300 counted as success.
IsSuccessInclusive(status_code) == 200 <= status_code /\ status_code <= 300
\* 200 <= response.status_code < 300
IsSuccess(status_code) == 200 <= status_code /\ status_code < 300

\* Faulty variant of the loop range: range(self._max_retries).
InRangeShort(a) == 0 <= a /\ a < _max_retries
\* range(self._max_retries + 1) yields the index a
InRange(a) == 0 <= a /\ a < _max_retries + 1

\* Faulty variant of the join: a single leading "/" of the endpoint is dropped.
UrlSingleStrip(endpoint) ==
    _base_url \o <<"/">>
        \o (IF endpoint # <<>> /\ Head(endpoint) = "/" THEN Tail(endpoint) ELSE endpoint)
\* url = f"{self._base_url}/{endpoint.lstrip('/')}"
Url(endpoint) == _base_url \o <<"/">> \o LStrip(endpoint, {"/"})

\* Faulty variant of the timeout choice: `timeout_seconds or self._timeout_seconds`.
TimeoutUnlessFalsy(timeout_seconds) ==
    IF timeout_seconds # PyNone /\ timeout_seconds.ms # 0 THEN timeout_seconds.ms
    ELSE _timeout_seconds
\* timeout = timeout_seconds if timeout_seconds is not None else self._timeout_seconds
Timeout(timeout_seconds) ==
    IF timeout_seconds # PyNone THEN timeout_seconds.ms ELSE _timeout_seconds

\* Entry of _request: the url and timeout locals, then the head of the for loop.
_request(method, endpoint, params, json_data, data, files, timeout_seconds) ==
    /\ phase = "ready"
    /\ pc = "idle"
    /\ call' = [method |-> method, endpoint |-> endpoint, params |-> params,
                json_data |-> json_data, data |-> data, files |-> files,
                timeout_seconds |-> timeout_seconds,
                url |-> Url(endpoint),
                timeout |-> Timeout(timeout_seconds)]
    /\ attempt' = 0
    /\ response' = NoResponse
    /\ wire' = PyNone
    /\ requests_issued' = 0
    /\ sleeps' = <<>>
    /\ outcomes' = <<>>
    /\ IF InRange(0)
       THEN /\ pc' = "attempt"
            /\ result' = NoResult
       ELSE /\ pc' = "done"
            /\ result' = Raised(NetworkErrorLoopExit(method, call'.url))
    /\ UNCHANGED <<environ, probe, config_vars, session_state>>

get ==
    \E a \in QueryArgs :
        /\ _request(MethodGET, a.endpoint, a.params, PyNone, PyNone, PyNone,
                    a.timeout_seconds)
        /\ UNCHANGED upper_vars

post ==
    \E a \in BodyArgs :
        /\ _request(MethodPOST, a.endpoint, a.params, a.json_data, a.data, a.files,
                    a.timeout_seconds)
        /\ UNCHANGED upper_vars

put ==
    \E a \in BodyArgs :
        /\ _request(MethodPUT, a.endpoint, a.params, a.json_data, a.data, a.files,
                    a.timeout_seconds)
        /\ UNCHANGED upper_vars

patch ==
    \E a \in BodyArgs :
        /\ _request(MethodPATCH, a.endpoint, a.params, a.json_data, a.data, a.files,
                    a.timeout_seconds)
        /\ UNCHANGED upper_vars

delete ==
    \E a \in QueryArgs :
        /\ _request(MethodDELETE, a.endpoint, a.params, PyNone, PyNone, PyNone,
                    a.timeout_seconds)
        /\ UNCHANGED upper_vars

\* self._session.request(...) is called for the current attempt.
\* Faulty variant of the header choice: the files argument is not looked at.
HeadersIgnoringFiles(c) ==
    IF c.json_data # PyNone THEN PyStr(ApplicationJson) ELSE PyNone
\* headers = None; if files is None and json_data is not None: Content-Type
Headers(c) ==
    IF c.files = PyNone /\ c.json_data # PyNone THEN PyStr(ApplicationJson) ELSE PyNone

\* Faulty variant of the body choice: the JSON body goes out on the first
\* attempt only.
JsonOnFirstAttemptOnly(c) ==
    IF c.files # PyNone \/ attempt > 0 THEN PyNone ELSE c.json_data
\* json=None if files is not None else json_data
Json(c) == IF c.files # PyNone THEN PyNone ELSE c.json_data

SessionRequest ==
    /\ pc = "attempt"
    /\ pc' = "inflight"
    /\ requests_issued' = requests_issued + 1
    /\ wire' = [method |-> call.method, url |-> call.url, params |-> call.params,
                json |-> Json(call),
                data |-> call.data, files |-> call.files, timeout |-> call.timeout,
                headers |-> Headers(call),
                authorization |-> session_headers.Authorization]
    /\ session_state' = [session_state EXCEPT !.pool = "connected", !.used = TRUE]
    /\ UNCHANGED <<environ, probe, config_vars, call, attempt, response, sleeps, outcomes,
                   result, upper_vars>>

\* self._sleep_backoff(attempt); continue.  time.sleep(delay) raises
\* ValueError for a negative delay before it sleeps, and nothing in _request
\* catches it.
SleepAndContinue ==
    IF _sleep_backoff(attempt) < 0
    THEN /\ pc' = "done"
         /\ result' = Raised(PyException("ValueError"))
         /\ UNCHANGED sleeps
    ELSE /\ sleeps' = Append(sleeps, _sleep_backoff(attempt))
         /\ pc' = "sleeping"
         /\ UNCHANGED result

\* session.request raised requests.exceptions.RequestException
RequestException ==
    \E desc \in ExceptionTexts :
        /\ pc = "inflight"
        /\ response' = TransportFailure(desc)
        /\ outcomes' = Append(outcomes, "exception")
        /\ IF RetryAllowed(attempt)
           THEN SleepAndContinue
           ELSE /\ pc' = "done"
                /\ result' = Raised(NetworkErrorExhausted(call.method, call.url, desc))
                /\ UNCHANGED sleeps
        /\ UNCHANGED <<environ, probe, config_vars, call, attempt, wire, requests_issued,
                       session_state, upper_vars>>

\* session.request returned a response
ResponseReceived ==
    \E status_code \in StatusCodes, text \in Bodies :
        LET resp == HttpResponse(status_code, text)
            response_data == _parse_response_data(resp)
        IN  /\ pc = "inflight"
            /\ response' = resp
            /\ outcomes' = Append(outcomes, "response")
            /\ IF status_code \in _RETRYABLE_STATUS_CODES /\ RetryAllowed(attempt)
               THEN SleepAndContinue
               ELSE /\ pc' = "done"
                    /\ result' =
                         IF IsSuccess(status_code)
                         THEN Returned(response_data)
                         ELSE Raised(_map_http_error(status_code, response_data,
                                                     call.method, call.url))
                    /\ UNCHANGED sleeps
            /\ UNCHANGED <<environ, probe, config_vars, call, attempt, wire, requests_issued,
                       session_state, upper_vars>>

\* time.sleep returned: the for loop takes its next index, or is exhausted.
SleepReturns ==
    /\ pc = "sleeping"
    /\ attempt' = attempt + 1
    /\ IF InRange(attempt + 1)
       THEN /\ pc' = "attempt"
            /\ UNCHANGED result
       ELSE /\ pc' = "done"
            /\ result' = Raised(NetworkErrorLoopExit(call.method, call.url))
    /\ UNCHANGED session_state
    /\ UNCHANGED upper_vars
    /\ UNCHANGED <<environ, probe, config_vars, call, response, wire, requests_issued, sleeps,
                   outcomes>>

\* The verb method hands its value or exception to the caller; the frame of
\* _request is gone and the client is free for the next call.
PopFrame ==
    /\ pc = "done"
    /\ pc' = "idle"
    /\ call' = PyNone
    /\ attempt' = 0
    /\ response' = NoResponse
    /\ wire' = PyNone
    /\ requests_issued' = 0
    /\ sleeps' = <<>>
    /\ outcomes' = <<>>
    /\ result' = NoResult
    /\ UNCHANGED <<environ, probe, config_vars, session_state>>

Return ==
    /\ PopFrame
    /\ UNCHANGED upper_vars

\* Faulty variant of Session.close: the pools are left as they are.
SessionCloseKeepsPool(session) ==
    [session EXCEPT !.close_calls = @ + 1]
\* self._session.close(): every adapter is closed, which clears its pools
SessionClose(session) ==
    [session EXCEPT !.pool = "empty", !.close_calls = @ + 1]

\* Faulty variant of close: it also drops the headers set at construction.
CloseResettingHeaders ==
    /\ phase = "ready"
    /\ pc = "idle"
    /\ session_state.close_calls < MaxCloses
    /\ session_state' = SessionClose(session_state)
    /\ session_headers' = FreshHeaders
    /\ pc' = "done"
    /\ result' = Returned(PyNone)
    /\ UNCHANGED <<environ, probe, init_args, phase, init_error, _base_url,
                   _timeout_seconds, _max_retries, _retry_backoff_seconds, call, attempt,
                   response, wire, requests_issued, sleeps, outcomes, upper_vars>>
\* BaseClient.close, called between calls; it returns None.
close ==
    /\ phase = "ready"
    /\ pc = "idle"
    /\ session_state.close_calls < MaxCloses
    /\ session_state' = SessionClose(session_state)
    /\ pc' = "done"
    /\ result' = Returned(PyNone)
    /\ UNCHANGED <<environ, probe, config_vars, call, attempt, response, wire,
                   requests_issued, sleeps, outcomes, upper_vars>>

Next ==
    \/ Construct
    \/ get
    \/ post
    \/ put
    \/ patch
    \/ delete
    \/ SessionRequest
    \/ RequestException
    \/ ResponseReceived
    \/ SleepReturns
    \/ Return

Spec == Init /\ [][Next]_vars

-----------------------------------------------------------------------------
(* Properties of the retry loop.                                           *)

AllExceptions == \A i \in 1..Len(outcomes) : outcomes[i] = "exception"
AllResponses == \A i \in 1..Len(outcomes) : outcomes[i] = "response"
Mixed == ~AllExceptions /\ ~AllResponses

\* The last response reached the decoding of base_client.py lines 406-410: the
\* retry branch of lines 399-404 did not take it.
Decoded ==
    /\ response.kind = "response"
    /\ ~(response.status_code \in _RETRYABLE_STATUS_CODES /\ RetryAllowed(attempt))

\* The last attempt failed in a way the loop retries, so the call went on to
\* _sleep_backoff instead of ending with that attempt's outcome.
HandedToBackoff ==
    /\ RetryAllowed(attempt)
    /\ \/ response.kind = "exception"
       \/ /\ response.kind = "response"
          /\ response.status_code \in _RETRYABLE_STATUS_CODES

\* The step in which session.request hands its outcome to _request.
OutcomeStep == pc = "inflight" /\ pc' # "inflight"

\* C1: with max_retries = N >= 0, a call of any verb whose attempts all fail
\* with a transport exception ends after exactly N+1 requests by raising
\* NetworkError with status_code None and response_data None.
NetworkErrorAfterExhaustion ==
    (pc = "done" /\ _max_retries >= 0 /\ AllExceptions)
        => /\ requests_issued = _max_retries + 1
           /\ result.kind = "raise"
           /\ result.exc.cls = "NetworkError"
           /\ result.exc.status_code = PyNone
           /\ result.exc.response_data = PyNone

NetworkErrorAfterExhaustionWitness ==
    /\ pc = "done"
    /\ _max_retries = 1
    /\ AllExceptions
    /\ requests_issued = 2
    /\ call.method = MethodPATCH
    /\ result.kind = "raise"
    /\ result.exc.cls = "NetworkError"

\* C2: with max_retries = N >= 0, a call whose attempts all receive a response
\* with a status of {500, 502, 503, 504} ends after exactly N+1 requests by
\* raising ServerError carrying the status code of the final response.
ServerErrorAfterExhaustion ==
    (/\ pc = "done"
     /\ _max_retries >= 0
     /\ AllResponses
     /\ response.status_code \in {500, 502, 503, 504})
        => /\ requests_issued = _max_retries + 1
           /\ result.kind = "raise"
           /\ result.exc.cls = "ServerError"
           /\ result.exc.status_code = PyInt(response.status_code)

ServerErrorAfterExhaustionWitness ==
    /\ pc = "done"
    /\ _max_retries = 1
    /\ AllResponses
    /\ response.kind = "response"
    /\ response.status_code = 503
    /\ requests_issued = 2
    /\ result.kind = "raise"
    /\ result.exc.cls = "ServerError"
    /\ result.exc.status_code = PyInt(503)

\* C3: an attempt with index below max_retries that ends in a transport
\* exception or in a status of {500, 502, 503, 504} does not end the call: the
\* call sleeps, the sleep is followed by the next attempt, that attempt issues a
\* request, and a 2xx response to it makes the call return the decoded payload
\* of that response.
RetryThenSucceed ==
    [][ /\ (/\ OutcomeStep
            /\ attempt < _max_retries
            /\ \/ response'.kind = "exception"
               \/ /\ response'.kind = "response"
                  /\ response'.status_code \in {500, 502, 503, 504})
           => /\ pc' = "sleeping"
              /\ result' = NoResult
              /\ Len(sleeps') = Len(sleeps) + 1
        /\ pc = "sleeping"
           => /\ pc' = "attempt"
              /\ attempt' = attempt + 1
              /\ result' = NoResult
        /\ pc = "attempt"
           => /\ pc' = "inflight"
              /\ requests_issued' = requests_issued + 1
        /\ (/\ OutcomeStep
            /\ attempt >= 1
            /\ response'.kind = "response"
            /\ response'.status_code \in 200..299)
           => /\ pc' = "done"
              /\ result' = Returned(_parse_response_data(response'))
      ]_vars

RetryThenSucceedWitness ==
    /\ pc = "done"
    /\ Mixed
    /\ Len(outcomes) = 3
    /\ outcomes[3] = "response"
    /\ response.status_code = 200
    /\ requests_issued = 3
    /\ Len(sleeps) = 2
    /\ result = Returned(PyDict(Absent, Absent, Absent, 1))

\* C4: a response whose status is outside {500, 502, 503, 504} ends the call on
\* the attempt that received it, whatever the attempt index and max_retries: no
\* sleep is taken and no request is issued after it.
NonRetryableStatusEndsCall ==
    [][ /\ (/\ OutcomeStep
            /\ response'.kind = "response"
            /\ response'.status_code \notin {500, 502, 503, 504})
           => /\ pc' = "done"
              /\ result'.kind \in {"return", "raise"}
              /\ sleeps' = sleeps
              /\ requests_issued' = requests_issued
        /\ pc = "done"
           => /\ pc' = "idle"
              /\ requests_issued' = 0
              /\ sleeps' = <<>>
      ]_vars

NonRetryableStatusEndsCallWitness ==
    /\ pc = "done"
    /\ response.kind = "response"
    /\ response.status_code = 429
    /\ attempt = 0
    /\ _max_retries = 3
    /\ requests_issued = 1
    /\ sleeps = <<>>
    /\ result.kind = "raise"

\* C5: for max_retries = N >= 0 the transport exceptions and the retryable
\* statuses of one call count against the same attempt counter: the call never
\* issues more than N+1 requests nor sleeps more than N times, and with N = 0 it
\* issues exactly one request and never sleeps.
SharedAttemptCounter ==
    (phase = "ready" /\ _max_retries >= 0)
        => /\ requests_issued <= _max_retries + 1
           /\ Len(sleeps) <= _max_retries
           /\ Len(outcomes) <= requests_issued
           /\ pc \in {"inflight", "sleeping", "done"} => requests_issued = attempt + 1
           /\ pc = "attempt" => requests_issued = attempt
           /\ _max_retries = 0
              => /\ sleeps = <<>>
                 /\ pc = "done" => requests_issued = 1

SharedAttemptCounterWitness ==
    /\ pc = "done"
    /\ _max_retries = 1
    /\ outcomes = <<"exception", "response">>
    /\ response.status_code = 503
    /\ requests_issued = 2
    /\ Len(sleeps) = 1

\* C6: the sleep taken after the attempt with index i lasts
\* retry_backoff_seconds * 2^i whichever channel caused the retry; with base
\* 0.5 s the delays after attempts 0, 1, 2 are 0.5 s, 1.0 s and 2.0 s.
ExponentialBackoff ==
    /\ \A j \in 1..Len(sleeps) : sleeps[j] = _retry_backoff_seconds * 2 ^ (j - 1)
    /\ pc = "sleeping" => Len(sleeps) = attempt + 1
    /\ (_retry_backoff_seconds = 500 /\ Len(sleeps) >= 3)
           => SubSeq(sleeps, 1, 3) = <<500, 1000, 2000>>

ExponentialBackoffWitness ==
    /\ _retry_backoff_seconds = 500
    /\ sleeps = <<500, 1000, 2000>>
    /\ Len(outcomes) >= 3
    /\ outcomes[1] = "exception"
    /\ outcomes[2] = "response"

\* C7: every verb call on a constructed client has issued at least one request
\* when it returns or raises, for every max_retries that construction accepts.
AtLeastOneRoundTrip ==
    pc = "done" => requests_issued >= 1

\* C8: a call returns normally exactly when its last attempt received a status
\* in [200, 300), the value returned is the decoded payload of that response,
\* and the exception raised otherwise is fixed by the last attempt alone,
\* whatever the earlier attempts were: NetworkError for a transport exception
\* that ends the loop, a class fixed by the status for a decoded response, and
\* the ValueError of time.sleep when the last attempt was handed to a backoff
\* that time.sleep rejected.
OutcomeOfLastAttempt ==
    pc = "done"
        => /\ result.kind \in {"return", "raise"}
           /\ result.kind = "return"
              <=> (response.kind = "response" /\ response.status_code \in 200..299)
           /\ result.kind = "return"
              => result.value =
                     IF response.status_code = 204 THEN EmptyDict
                     ELSE IF JsonDecode(response.text).ok
                     THEN JsonDecode(response.text).v
                     ELSE PyStr(response.text)
           /\ (result.kind = "raise" /\ HandedToBackoff)
              => result.exc = PyException("ValueError")
           /\ (result.kind = "raise" /\ response.kind = "exception" /\ ~HandedToBackoff)
              => result.exc.cls = "NetworkError"
           /\ (result.kind = "raise" /\ Decoded)
              => /\ result.exc.cls # "NetworkError"
                 /\ result.exc.status_code = PyInt(response.status_code)
                 /\ result.exc.cls = ErrorClassOf(response.status_code)

OutcomeOfLastAttemptWitness ==
    /\ pc = "done"
    /\ outcomes = <<"response", "exception", "response">>
    /\ response.status_code = 299
    /\ response.text = BodyText
    /\ result = Returned(PyStr(BodyText))

\* C9: for a final response, one that reached decoding, with a status outside
\* [200, 300) the class of the raised error is fixed by the status: 400
\* ValidationError, 401
\* AuthenticationError, 404 NotFoundError, 429 RateLimitError, 500..599
\* ServerError, any other status ApiError.
ErrorKindByStatus ==
    (/\ pc = "done"
     /\ Decoded
     /\ response.status_code \notin 200..299)
        => /\ result.kind = "raise"
           /\ result.exc.cls =
                CASE response.status_code = 400 -> "ValidationError"
                  [] response.status_code = 401 -> "AuthenticationError"
                  [] response.status_code = 404 -> "NotFoundError"
                  [] response.status_code = 429 -> "RateLimitError"
                  [] response.status_code \in 500..599 -> "ServerError"
                  [] OTHER -> "ApiError"

ErrorKindByStatusWitness ==
    /\ pc = "done"
    /\ response.kind = "response"
    /\ response.status_code = 429
    /\ result.kind = "raise"
    /\ result.exc.cls = "RateLimitError"

\* C10: an error raised for a decoded non-2xx response carries the status code of the
\* response as status_code and its decoded payload, the JSON value or the text
\* of a body that is not JSON, unchanged as response_data.
ErrorCarriesStatusAndPayload ==
    (/\ pc = "done"
     /\ Decoded
     /\ response.status_code \notin 200..299)
        => /\ result.kind = "raise"
           /\ result.exc.status_code = PyInt(response.status_code)
           /\ result.exc.response_data =
                IF JsonDecode(response.text).ok THEN JsonDecode(response.text).v
                ELSE PyStr(response.text)

ErrorCarriesStatusAndPayloadWitness ==
    /\ pc = "done"
    /\ response = HttpResponse(400, BodyDetail)
    /\ result.kind = "raise"
    /\ result.exc.cls = "ValidationError"
    /\ result.exc.status_code = PyInt(400)
    /\ result.exc.response_data =
           PyDict(PyStr(<<"b", "a", "d", " ", "f", "i", "e", "l", "d">>),
                  Absent, Absent, 0)

-----------------------------------------------------------------------------
(* Properties of the response decoding.                                    *)

\* C11: a response with status 204 decodes to the empty object whatever its
\* body is, JSON or not, and the verb call returns the empty object.
NoContentIsEmptyObject ==
    (pc = "done" /\ response.kind = "response" /\ response.status_code = 204)
        => result = Returned(PyDict(Absent, Absent, Absent, 0))

NoContentIsEmptyObjectWitness ==
    /\ pc = "done"
    /\ response = HttpResponse(204, BodyList)
    /\ result = Returned(PyDict(Absent, Absent, Absent, 0))

\* C12: for a decoded response with a status other than 204 whose body is not JSON the
\* payload is the text of the body unchanged: a 2xx call returns it, any
\* other call raises the error mapped from the status with the text attached,
\* and no decoding failure reaches the caller.
NotJsonFallsBackToText ==
    (/\ pc = "done"
     /\ Decoded
     /\ response.status_code # 204
     /\ response.text = BodyText)
        => IF response.status_code \in 200..299
           THEN result = Returned(PyStr(BodyText))
           ELSE /\ result.kind = "raise"
                /\ result.exc.status_code = PyInt(response.status_code)
                /\ result.exc.response_data = PyStr(BodyText)

NotJsonFallsBackToTextWitness ==
    /\ pc = "done"
    /\ response = HttpResponse(404, BodyText)
    /\ result.kind = "raise"
    /\ result.exc.cls = "NotFoundError"
    /\ result.exc.response_data = PyStr(BodyText)

-----------------------------------------------------------------------------
(* Error mapping as a function of the decoded payload: _map_http_error is  *)
(* applied to a status, a decoded payload, a method and a url.              *)

\* The state before any client is constructed, in the environment env.
Untouched(env) ==
    /\ environ = env
    /\ init_args = PyNone
    /\ phase = "new"
    /\ init_error = PyNone
    /\ _base_url = <<>>
    /\ _timeout_seconds = 0
    /\ _max_retries = 0
    /\ _retry_backoff_seconds = 0
    /\ session_headers = FreshHeaders
    /\ pc = "idle"
    /\ call = PyNone
    /\ attempt = 0
    /\ response = NoResponse
    /\ wire = PyNone
    /\ requests_issued = 0
    /\ sleeps = <<>>
    /\ outcomes = <<>>
    /\ result = NoResult
    /\ session_state = NewSession
    /\ hovercodes_args = PyNone
    /\ op = PyNone
    /\ facade = PyNone
    /\ peer = PyNone

EmptyEnvironment == Env(PyNone, PyNone, PyNone, PyNone)

\* Values found under a key of an error object: missing, null, a number, the
\* empty string, a blank string, and a string c of its own.
DictValues(c) == {Absent, PyNone, PyInt(7), PyStr(<<>>), PyStr(<<" ">>), PyStr(<<c>>)}

ObjectPayloads ==
    {PyDict(d, e, m, 0) :
        d \in DictValues("d"), e \in DictValues("e"), m \in DictValues("m")}

TextPayloads ==
    {PyStr(<<>>), PyStr(<<" ">>), PyStr(<<"\t", "\n">>),
     PyStr(BodyText), PyStr(<<" ", "x", " ">>)}

OtherPayloads == {PyList(0), PyList(1), PyInt(5), PyNone}

ErrorPayloads == ObjectPayloads \cup TextPayloads \cup OtherPayloads

MessageStatusCodes == {400, 418, 503}

MessageProbes ==
    {[fn |-> "_map_http_error", done |-> FALSE, value |-> PyNone,
      args |-> [status_code |-> sc, response_data |-> rd, method |-> mt,
                url |-> <<"h", "/", "x">>]] :
        sc \in MessageStatusCodes, rd \in ErrorPayloads,
        mt \in {MethodGET, MethodDELETE}}

InitMessage ==
    /\ Untouched(EmptyEnvironment)
    /\ probe \in MessageProbes

MapHttpError ==
    /\ probe.fn = "_map_http_error"
    /\ ~probe.done
    /\ probe' = [probe EXCEPT
                    !.done = TRUE,
                    !.value = _map_http_error(probe.args.status_code,
                                              probe.args.response_data,
                                              probe.args.method, probe.args.url)]
    /\ UNCHANGED <<environ, config_vars, call_vars, session_state, upper_vars>>

NextMessage == MapHttpError

SpecMessage == InitMessage /\ [][NextMessage]_vars

Mapped == probe.fn = "_map_http_error" /\ probe.done

StatusText(status_code) ==
    CASE status_code = 400 -> <<"4", "0", "0">>
      [] status_code = 418 -> <<"4", "1", "8">>
      [] status_code = 503 -> <<"5", "0", "3">>

\* "<METHOD> <url> failed (<status>)"
MessageHead ==
    probe.args.method \o <<" ">> \o probe.args.url
        \o <<" ", "f", "a", "i", "l", "e", "d", " ", "(">>
        \o StatusText(probe.args.status_code) \o <<")">>
MessageWith(value) == MessageHead \o <<":", " ">> \o value
BareMessage == MessageHead \o <<".">>

IsNonEmptyStr(v) == v.t = "str" /\ Len(v.s) >= 1
IsNonBlankStr(v) ==
    v.t = "str" /\ \E i \in 1..Len(v.s) : v.s[i] \notin {" ", "\t", "\n"}

\* The message claimed for an object: the value of the first key, in the order
\* detail, error, message, that passes the test Usable(_).
ObjectMessageBy(Usable(_)) ==
    LET d == probe.args.response_data.d
    IN  IF Usable(d.detail) THEN probe.value.message = MessageWith(d.detail.s)
        ELSE IF Usable(d.error) THEN probe.value.message = MessageWith(d.error.s)
        ELSE IF Usable(d.message) THEN probe.value.message = MessageWith(d.message.s)
        ELSE TRUE

\* C13 as stated: for an object payload the message is
\* "<METHOD> <url> failed (<status>): <value>" with the value of the first key
\* among detail, error, message that holds a non-empty string.
ObjectMessageFirstNonEmptyString ==
    (Mapped /\ probe.args.response_data.t = "dict")
        => ObjectMessageBy(IsNonEmptyStr)

\* C13 as amended: for an object payload the message is
\* "<METHOD> <url> failed (<status>): <value>" with the value, unchanged, of the
\* first key among detail, error, message that holds a string with at least one
\* character that is not whitespace; a key that is missing or holds a value that
\* is not a string, the empty string or a string of whitespace only is skipped.
ObjectMessageFirstNonBlankString ==
    (Mapped /\ probe.args.response_data.t = "dict")
        => ObjectMessageBy(IsNonBlankStr)

ObjectMessageFirstNonBlankStringWitness ==
    /\ Mapped
    /\ probe.args.response_data =
           PyDict(PyStr(<<" ">>), PyStr(<<"e">>), PyStr(<<"m">>), 0)
    /\ probe.args.status_code = 400
    /\ probe.args.method = MethodGET
    /\ probe.value.message =
           <<"G", "E", "T", " ", "h", "/", "x", " ", "f", "a", "i", "l", "e", "d",
             " ", "(", "4", "0", "0", ")", ":", " ", "e">>

\* C14: for an object payload without a usable string under detail, error or
\* message, and for a payload that is neither an object nor a string (array,
\* number, null), the message is exactly "<METHOD> <url> failed (<status>).".
BareMessageWithoutDetail ==
    LET rd == probe.args.response_data
    IN  (/\ Mapped
         /\ \/ /\ rd.t = "dict"
               /\ ~IsNonBlankStr(rd.d.detail)
               /\ ~IsNonBlankStr(rd.d.error)
               /\ ~IsNonBlankStr(rd.d.message)
            \/ rd.t \notin {"dict", "str"})
            => probe.value.message = BareMessage

BareMessageWithoutDetailWitness ==
    /\ Mapped
    /\ probe.args.response_data = PyDict(Absent, Absent, Absent, 0)
    /\ probe.args.status_code = 400
    /\ probe.args.method = MethodGET
    /\ probe.value.cls = "ValidationError"
    /\ probe.value.message =
           <<"G", "E", "T", " ", "h", "/", "x", " ", "f", "a", "i", "l", "e", "d",
             " ", "(", "4", "0", "0", ")", ".">>

\* C15 as stated: for a payload that is a string of length >= 1, whitespace
\* only included, the message is "<METHOD> <url> failed (<status>): <payload>".
TextMessageForNonEmptyString ==
    (Mapped /\ IsNonEmptyStr(probe.args.response_data))
        => probe.value.message = MessageWith(probe.args.response_data.s)

\* C15 as amended: for a payload that is a string with at least one character
\* that is not whitespace the message is
\* "<METHOD> <url> failed (<status>): <payload>", the payload unchanged; for a
\* string of whitespace only it is "<METHOD> <url> failed (<status>).".
TextMessageForNonBlankString ==
    LET rd == probe.args.response_data
    IN  (Mapped /\ IsNonEmptyStr(rd))
            => probe.value.message =
                   IF IsNonBlankStr(rd) THEN MessageWith(rd.s) ELSE BareMessage

TextMessageForNonBlankStringWitness ==
    /\ Mapped
    /\ probe.args.response_data = PyStr(<<" ", "x", " ">>)
    /\ probe.args.status_code = 503
    /\ probe.args.method = MethodDELETE
    /\ probe.value.message =
           <<"D", "E", "L", "E", "T", "E", " ", "h", "/", "x", " ", "f", "a", "i",
             "l", "e", "d", " ", "(", "5", "0", "3", ")", ":", " ", " ", "x", " ">>

\* C21: on every attempt, when files is passed the request has no JSON body and
\* no Content-Type: application/json header, also when json_data was passed
\* too, and the files go out; when files is absent and json_data is passed,
\* the request has json_data as its JSON body and the header.
JsonAndFilesExclusive ==
    wire # PyNone
        => /\ call.files # PyNone
              => (wire.json = PyNone /\ wire.headers = PyNone /\ wire.files = call.files)
           /\ (call.files = PyNone /\ call.json_data # PyNone)
              => /\ wire.json = call.json_data
                 /\ wire.headers =
                        PyStr(<<"a", "p", "p", "l", "i", "c", "a", "t", "i", "o", "n",
                                "/", "j", "s", "o", "n">>)
                 /\ wire.files = PyNone

JsonAndFilesExclusiveWitness ==
    /\ pc = "inflight"
    /\ attempt = 1
    /\ call.files # PyNone
    /\ call.json_data # PyNone
    /\ wire.json = PyNone
    /\ wire.headers = PyNone

\* C23: every attempt of a call goes out with the same timeout: the
\* timeout_seconds of the call when one is passed, 0 included, and the
\* configured timeout otherwise; it does not shrink or add up over retries.
TimeoutPerAttempt ==
    wire # PyNone
        => wire.timeout = IF call.timeout_seconds = PyNone THEN _timeout_seconds
                          ELSE call.timeout_seconds.ms

TimeoutPerAttemptWitness ==
    /\ pc = "inflight"
    /\ attempt = 1
    /\ call.timeout_seconds = PyFloat(0)
    /\ _timeout_seconds > 0
    /\ wire.timeout = 0

\* The token construction resolves: the argument when given, else the variable.
ClaimedToken ==
    IF init_args.api_token.t = "str" /\ Len(init_args.api_token.s) >= 1
    THEN init_args.api_token.s
    ELSE environ.API_TOKEN.s

\* C18: after a successful construction the session headers hold
\* Accept: application/json and Authorization: "Token <resolved token>", and
\* the request of every attempt of every verb call carries that Authorization.
SessionHeadersOnEveryRequest ==
    /\ phase = "ready"
       => /\ session_headers.Accept =
                 PyStr(<<"a", "p", "p", "l", "i", "c", "a", "t", "i", "o", "n", "/",
                         "j", "s", "o", "n">>)
          /\ session_headers.Authorization =
                 PyStr(<<"T", "o", "k", "e", "n", " ">> \o ClaimedToken)
    /\ wire # PyNone
       => /\ phase = "ready"
          /\ wire.authorization =
                 PyStr(<<"T", "o", "k", "e", "n", " ">> \o ClaimedToken)

SessionHeadersOnEveryRequestWitness ==
    /\ pc = "inflight"
    /\ attempt = 1
    /\ call.method = MethodPOST
    /\ init_args.api_token = PyNone
    /\ wire.authorization = PyStr(<<"T", "o", "k", "e", "n", " ", "e">>)

-----------------------------------------------------------------------------
(* Construction over a wide range of arguments and environments.           *)

ConfigEnvironments ==
    {Env(token, timeout, retries, backoff) :
        token \in {PyNone, PyStr(<<>>), PyStr(<<"e">>)},
        timeout \in {PyNone, PyStr(<<"2", ".", "5">>), PyStr(<<"a", "b", "c">>)},
        retries \in {PyNone, PyStr(<<" ", "2", " ">>), PyStr(<<"1", ".", "5">>),
                     PyStr(<<"-", "1">>)},
        backoff \in {PyNone, PyStr(<<"0", ".", "2", "5">>), PyStr(<<>>)}}

ConfigApiTokenArgs == {PyNone, PyStr(<<>>), PyStr(<<"t">>)}
ConfigBaseUrlArgs == {<<>>, <<"/">>, <<"/", "/">>, <<"h">>, <<"h", "/">>}
ConfigTimeoutArgs == {PyNone, PyFloat(0), PyFloat(5000)}
ConfigBackoffArgs == {PyNone, PyFloat(0), PyFloat(1000)}

InitConfig ==
    /\ \E env \in ConfigEnvironments : Untouched(env)
    /\ probe = PyNone

ConstructAny ==
    \E api_token \in ConfigApiTokenArgs, base_url \in ConfigBaseUrlArgs,
       timeout_seconds \in ConfigTimeoutArgs, max_retries \in MaxRetriesArgs,
       retry_backoff_seconds \in ConfigBackoffArgs :
        /\ phase = "new"
        /\ __init__(api_token, base_url, timeout_seconds, max_retries,
                    retry_backoff_seconds)
        /\ UNCHANGED upper_vars

NextConfig == ConstructAny

SpecConfig == InitConfig /\ [][NextConfig]_vars

Given(v) == v.t = "str" /\ Len(v.s) >= 1

\* C16: with a non-empty base_url, construction raises AuthenticationError
\* exactly when neither the api_token argument nor HOVERCODE_API_TOKEN gives a
\* token; otherwise it succeeds, and the Authorization header is "Token "
\* followed by the argument when it is given, also when the variable is set too,
\* and by the variable otherwise.
TokenResolution ==
    (phase # "new" /\ init_args.base_url # <<>>)
        => LET a == init_args.api_token
               e == environ.API_TOKEN
           IN  /\ phase = "failed" <=> (~Given(a) /\ ~Given(e))
               /\ phase = "failed" => init_error.cls = "AuthenticationError"
               /\ Given(a)
                  => session_headers.Authorization =
                         PyStr(<<"T", "o", "k", "e", "n", " ">> \o a.s)
               /\ (~Given(a) /\ Given(e))
                  => session_headers.Authorization =
                         PyStr(<<"T", "o", "k", "e", "n", " ">> \o e.s)

TokenResolutionWitness ==
    /\ phase = "ready"
    /\ init_args.api_token = PyStr(<<"t">>)
    /\ environ.API_TOKEN = PyStr(<<"e">>)
    /\ session_headers.Authorization = PyStr(<<"T", "o", "k", "e", "n", " ", "t">>)

OnlySlashes(s) == \A i \in 1..Len(s) : s[i] = "/"

\* C17: construction raises ValidationError whenever base_url is empty once its
\* trailing slashes are trimmed ("" and "/" for instance), and a constructed
\* client never stores an empty base URL.
EmptyTrimmedBaseUrlRejected ==
    phase # "new"
        => /\ OnlySlashes(init_args.base_url)
              => (phase = "failed" /\ init_error.cls = "ValidationError")
           /\ phase = "ready" => _base_url # <<>>

\* What int() and float() (in ms) make of the values the variables are set to.
ClaimedInt(raw) ==
    CASE raw = <<" ", "2", " ">> -> [ok |-> TRUE, v |-> 2]
      [] raw = <<"-", "1">> -> [ok |-> TRUE, v |-> -1]
      [] OTHER -> [ok |-> FALSE, v |-> 0]
ClaimedFloat(raw) ==
    CASE raw = <<"2", ".", "5">> -> [ok |-> TRUE, v |-> 2500]
      [] raw = <<"0", ".", "2", "5">> -> [ok |-> TRUE, v |-> 250]
      [] OTHER -> [ok |-> FALSE, v |-> 0]

\* C20: timeout_seconds, max_retries and retry_backoff_seconds each resolve to
\* the argument when it is given, else to the parsed value of their HOVERCODE_*
\* variable when it is set and parses, else to the default (10.0, 3, 0.5); a
\* value that does not parse gives the default, and construction fails only for
\* an empty base_url or a missing token.
NumericResolution ==
    /\ phase = "ready"
       => /\ _timeout_seconds =
                IF init_args.timeout_seconds # PyNone
                THEN init_args.timeout_seconds.ms
                ELSE IF /\ environ.TIMEOUT_SECONDS # PyNone
                        /\ ClaimedFloat(environ.TIMEOUT_SECONDS.s).ok
                THEN ClaimedFloat(environ.TIMEOUT_SECONDS.s).v
                ELSE 10000
          /\ _max_retries =
                IF init_args.max_retries # PyNone
                THEN init_args.max_retries.v
                ELSE IF /\ environ.MAX_RETRIES # PyNone
                        /\ ClaimedInt(environ.MAX_RETRIES.s).ok
                THEN ClaimedInt(environ.MAX_RETRIES.s).v
                ELSE 3
          /\ _retry_backoff_seconds =
                IF init_args.retry_backoff_seconds # PyNone
                THEN init_args.retry_backoff_seconds.ms
                ELSE IF /\ environ.RETRY_BACKOFF_SECONDS # PyNone
                        /\ ClaimedFloat(environ.RETRY_BACKOFF_SECONDS.s).ok
                THEN ClaimedFloat(environ.RETRY_BACKOFF_SECONDS.s).v
                ELSE 500
    /\ phase = "failed"
       => \/ init_args.base_url = <<>>
          \/ (~Given(init_args.api_token) /\ ~Given(environ.API_TOKEN))

NumericResolutionWitness ==
    /\ phase = "ready"
    /\ init_args.timeout_seconds = PyNone
    /\ init_args.max_retries = PyNone
    /\ init_args.retry_backoff_seconds = PyNone
    /\ environ.TIMEOUT_SECONDS = PyStr(<<"a", "b", "c">>)
    /\ environ.MAX_RETRIES = PyStr(<<"1", ".", "5">>)
    /\ environ.RETRY_BACKOFF_SECONDS = PyStr(<<>>)
    /\ _timeout_seconds = 10000
    /\ _max_retries = 3
    /\ _retry_backoff_seconds = 500

-----------------------------------------------------------------------------
(* URL joining over all short base URLs and endpoints.                     *)

UrlStrings(alphabet, shortest) ==
    UNION {[1..n -> alphabet] : n \in shortest..UrlMaxLen}

InitUrl ==
    /\ Untouched(EmptyEnvironment)
    /\ probe = PyNone

ConstructUrl ==
    \E base_url \in UrlStrings({"h", "/"}, 1) :
        /\ phase = "new"
        /\ __init__(PyStr(<<"t">>), base_url, PyNone, PyInt(0), PyNone)
        /\ UNCHANGED upper_vars

GetUrl ==
    \E endpoint \in UrlStrings({"x", "/"}, 0) :
        /\ _request(MethodGET, endpoint, PyNone, PyNone, PyNone, PyNone, PyNone)
        /\ UNCHANGED upper_vars

NextUrl == ConstructUrl \/ GetUrl \/ SessionRequest

SpecUrl == InitUrl /\ [][NextUrl]_vars

\* s without its trailing "/" characters, and s without its leading ones
WithoutTrailingSlashes(s) ==
    CHOOSE b \in {SubSeq(s, 1, i) : i \in 0..Len(s)} :
        /\ b = <<>> \/ b[Len(b)] # "/"
        /\ \A k \in (Len(b) + 1)..Len(s) : s[k] = "/"
WithoutLeadingSlashes(s) ==
    CHOOSE p \in {SubSeq(s, i, Len(s)) : i \in 1..(Len(s) + 1)} :
        /\ p = <<>> \/ p[1] # "/"
        /\ \A k \in 1..(Len(s) - Len(p)) : s[k] = "/"

\* C19: for every non-empty base_url and every endpoint, whatever the number of
\* slashes at their ends, the URL of the request is the base without its
\* trailing slashes, one "/", and the endpoint without its leading slashes.
SingleSlashJoin ==
    wire # PyNone
        => wire.url = WithoutTrailingSlashes(init_args.base_url) \o <<"/">>
                          \o WithoutLeadingSlashes(call.endpoint)

SingleSlashJoinWitness ==
    /\ pc = "inflight"
    /\ init_args.base_url = <<"h", "/", "/">>
    /\ call.endpoint = <<"/", "/", "x">>
    /\ wire.url = <<"h", "/", "x">>

-----------------------------------------------------------------------------
(* Closing the client between, before and after calls.                     *)

InitClose ==
    /\ Untouched(EmptyEnvironment)
    /\ probe = PyNone

ConstructClose ==
    \E max_retries \in {PyInt(0), PyInt(1)} :
        /\ phase = "new"
        /\ __init__(PyStr(<<"t">>), <<"h">>, PyNone, max_retries, PyNone)
        /\ UNCHANGED upper_vars

NextClose ==
    \/ ConstructClose
    \/ get
    \/ SessionRequest
    \/ RequestException
    \/ ResponseReceived
    \/ SleepReturns
    \/ Return
    \/ close

SpecClose == InitClose /\ [][NextClose]_vars

\* C22: each close() releases the connections of the session and returns
\* without raising, whether or not the session was closed before and whether
\* or not a request was ever issued; it leaves the configuration as it was, so
\* a second close() ends in the state the first one left.
CloseIdempotent ==
    [][session_state'.close_calls # session_state.close_calls
          => /\ session_state'.pool = "empty"
             /\ session_state'.used = session_state.used
             /\ result' = [kind |-> "return", value |-> PyNone]
             /\ UNCHANGED <<environ, config_vars>>]_vars

CloseIdempotentWitness ==
    /\ session_state.close_calls = 2
    /\ ~session_state.used
    /\ session_state.pool = "empty"
    /\ pc = "done"
    /\ result = [kind |-> "return", value |-> PyNone]

-----------------------------------------------------------------------------
(* Webhook signatures (hovercode/webhooks.py).                             *)

PyBool(b) == [t |-> "bool", b |-> b]

InvalidSignatureMessage ==
    <<"I", "n", "v", "a", "l", "i", "d", " ", "w", "e", "b", "h", "o", "o",
      "k", " ", "s", "i", "g", "n", "a", "t", "u", "r", "e", ".">>

\* A character outside ASCII ("U+00E9" stands for the one character e-acute).
EAcute == "U+00E9"
NonAsciiChars == {EAcute}
IsAscii(s) == \A i \in 1..Len(s) : s[i] \notin NonAsciiChars

WebhookSecrets == {<<"s">>, <<"k">>}
WebhookPayloads == {<<>>, <<97>>, <<98>>}

\* hmac.new(secret.encode("utf-8"), raw_payload, hashlib.sha256).hexdigest()
\* for the secrets and payloads above.
HmacSha256Hex(secret, raw_payload) ==
    CASE secret = <<"s">> /\ raw_payload = <<>> ->
      <<"6", "4", "e", "c", "a", "0", "7", "c", "c", "e", "6", "7", "9",
        "2", "9", "c", "3", "5", "7", "d", "6", "3", "d", "0", "a", "4",
        "a", "e", "c", "2", "0", "7", "e", "7", "7", "4", "8", "0", "0",
        "4", "0", "3", "2", "9", "8", "9", "1", "4", "f", "c", "0", "4",
        "e", "8", "8", "c", "e", "0", "2", "a", "c", "4", "9", "f">>
      [] secret = <<"s">> /\ raw_payload = <<97>> ->
      <<"9", "6", "5", "9", "4", "5", "0", "8", "9", "7", "1", "8", "8",
        "d", "0", "5", "4", "f", "9", "c", "2", "0", "3", "1", "0", "3",
        "4", "2", "e", "0", "4", "2", "c", "5", "5", "6", "9", "7", "7",
        "3", "7", "b", "2", "7", "9", "8", "b", "5", "9", "f", "8", "f",
        "1", "c", "e", "f", "7", "d", "d", "a", "0", "6", "7", "4">>
      [] secret = <<"s">> /\ raw_payload = <<98>> ->
      <<"2", "7", "e", "6", "a", "f", "7", "4", "a", "0", "6", "1", "a",
        "5", "f", "4", "0", "d", "6", "d", "0", "1", "7", "6", "3", "7",
        "6", "a", "e", "3", "3", "3", "7", "6", "8", "e", "4", "7", "7",
        "f", "d", "f", "1", "d", "1", "d", "7", "5", "6", "8", "2", "8",
        "a", "a", "f", "1", "1", "9", "2", "f", "d", "6", "6", "4">>
      [] secret = <<"k">> /\ raw_payload = <<>> ->
      <<"8", "b", "b", "9", "9", "0", "c", "4", "0", "a", "7", "d", "6",
        "1", "c", "b", "9", "7", "5", "9", "7", "a", "9", "4", "2", "1",
        "2", "5", "0", "2", "5", "b", "e", "5", "0", "a", "c", "8", "b",
        "e", "b", "7", "4", "4", "3", "6", "e", "3", "7", "3", "5", "b",
        "9", "8", "8", "9", "3", "a", "7", "f", "6", "6", "2", "0">>
      [] secret = <<"k">> /\ raw_payload = <<97>> ->
      <<"7", "8", "d", "a", "9", "1", "5", "1", "1", "e", "6", "7", "5",
        "5", "8", "7", "f", "5", "b", "9", "d", "f", "7", "8", "b", "e",
        "d", "e", "b", "a", "f", "5", "5", "6", "0", "d", "a", "2", "a",
        "b", "b", "8", "8", "1", "6", "2", "e", "e", "8", "7", "5", "d",
        "c", "d", "f", "7", "4", "4", "9", "5", "1", "d", "9", "e">>
      [] secret = <<"k">> /\ raw_payload = <<98>> ->
      <<"2", "f", "b", "3", "9", "8", "9", "8", "c", "f", "6", "b", "5",
        "c", "a", "d", "b", "d", "e", "2", "3", "7", "7", "d", "1", "4",
        "d", "b", "c", "7", "3", "3", "1", "c", "a", "a", "f", "0", "8",
        "2", "5", "d", "5", "9", "1", "0", "6", "d", "0", "9", "0", "d",
        "e", "e", "b", "7", "8", "5", "a", "a", "a", "3", "8", "9">>

compute_signature(secret, raw_payload) == HmacSha256Hex(secret, raw_payload)

\* hmac.compare_digest on two str: TypeError unless both are ASCII
compare_digest(a, b) ==
    IF IsAscii(a) /\ IsAscii(b) THEN Returned(PyBool(a = b))
    ELSE Raised(PyException("TypeError"))

\* Faulty variant of the verification: the received signature is not stripped.
VerifyWithoutStrip(secret, raw_payload, received_signature) ==
    compare_digest(compute_signature(secret, raw_payload), received_signature)
verify_signature(secret, raw_payload, received_signature) ==
    compare_digest(compute_signature(secret, raw_payload), Strip(received_signature))

verify_signature_or_raise(secret, raw_payload, received_signature) ==
    LET verified == verify_signature(secret, raw_payload, received_signature)
    IN  IF verified.kind = "raise" THEN verified
        ELSE IF ~verified.value.b
        THEN Raised(ApiError("WebhookSignatureError", InvalidSignatureMessage,
                             PyNone, PyNone))
        ELSE Returned(PyNone)

UpperHex(c) ==
    CASE c = "a" -> "A" [] c = "b" -> "B" [] c = "c" -> "C"
      [] c = "d" -> "D" [] c = "e" -> "E" [] c = "f" -> "F" [] OTHER -> c

Digests == {compute_signature(s, p) : s \in WebhookSecrets, p \in WebhookPayloads}

\* Received signatures: each digest as it is, padded with whitespace, in upper
\* case, cut short, with a blank inside and with a character outside ASCII
\* appended; and a few strings that are no digest at all.
ReceivedSignatures ==
    Digests
    \cup {<<" ">> \o d \o <<"\n">> : d \in Digests}
    \cup {<<"\t", " ">> \o d : d \in Digests}
    \cup {[i \in 1..Len(d) |-> UpperHex(d[i])] : d \in Digests}
    \cup {SubSeq(d, 1, 63) : d \in Digests}
    \cup {SubSeq(d, 1, 32) \o <<" ">> \o SubSeq(d, 33, 64) : d \in Digests}
    \cup {d \o <<EAcute>> : d \in Digests}
    \cup {<<>>, <<" ">>, <<"z", "z">>, <<EAcute>>, <<" ", EAcute, " ">>}

WebhookProbes ==
    {[fn |-> f, done |-> FALSE, value |-> PyNone,
      args |-> [secret |-> s, raw_payload |-> p, received_signature |-> r]] :
        f \in {"verify_signature", "verify_signature_or_raise"},
        s \in WebhookSecrets, p \in WebhookPayloads, r \in ReceivedSignatures}

InitWebhook ==
    /\ Untouched(EmptyEnvironment)
    /\ probe \in WebhookProbes

VerifySignature ==
    /\ probe.fn = "verify_signature"
    /\ ~probe.done
    /\ probe' = [probe EXCEPT
                    !.done = TRUE,
                    !.value = verify_signature(probe.args.secret, probe.args.raw_payload,
                                               probe.args.received_signature)]
    /\ UNCHANGED <<environ, config_vars, call_vars, session_state, upper_vars>>

VerifySignatureOrRaise ==
    /\ probe.fn = "verify_signature_or_raise"
    /\ ~probe.done
    /\ probe' = [probe EXCEPT
                    !.done = TRUE,
                    !.value = verify_signature_or_raise(probe.args.secret,
                                                        probe.args.raw_payload,
                                                        probe.args.received_signature)]
    /\ UNCHANGED <<environ, config_vars, call_vars, session_state, upper_vars>>

NextWebhook == VerifySignature \/ VerifySignatureOrRaise

SpecWebhook == InitWebhook /\ [][NextWebhook]_vars

Verified == probe.fn = "verify_signature" /\ probe.done
VerifiedOrRaised == probe.fn = "verify_signature_or_raise" /\ probe.done

\* s without the whitespace at its two ends
Trimmed(s) ==
    LET ends == CHOOSE e \in (1..(Len(s) + 1)) \X (0..Len(s)) :
                    /\ \A k \in 1..(e[1] - 1) : s[k] \in Whitespace
                    /\ \A k \in (e[2] + 1)..Len(s) : s[k] \in Whitespace
                    /\ \/ e[1] = e[2] + 1
                       \/ /\ e[1] <= e[2]
                          /\ s[e[1]] \notin Whitespace
                          /\ s[e[2]] \notin Whitespace
    IN  SubSeq(s, ends[1], ends[2])

LowerHexChars ==
    {"0", "1", "2", "3", "4", "5", "6", "7", "8", "9", "a", "b", "c", "d", "e", "f"}

\* C24: verify_signature returns True exactly when the received signature
\* without the whitespace at its ends is the 64 lowercase hex characters of
\* compute_signature(secret, raw_payload); the signature of another payload or
\* of another secret gives False.
VerifyIffTrimmedEqual ==
    Verified
        => LET a == probe.args
               expected == compute_signature(a.secret, a.raw_payload)
           IN  /\ Len(expected) = 64
               /\ \A i \in 1..64 : expected[i] \in LowerHexChars
               /\ probe.value = Returned(PyBool(TRUE))
                  <=> Trimmed(a.received_signature) = expected
               /\ \A s \in WebhookSecrets, p \in WebhookPayloads :
                      (<<s, p>> # <<a.secret, a.raw_payload>>
                       /\ a.received_signature = compute_signature(s, p))
                          => probe.value = Returned(PyBool(FALSE))

VerifyIffTrimmedEqualWitness ==
    /\ Verified
    /\ probe.args.received_signature =
           <<" ">> \o compute_signature(probe.args.secret, probe.args.raw_payload)
               \o <<"\n">>
    /\ probe.value = Returned(PyBool(TRUE))

\* C25: verify_signature returns a boolean for every secret, payload and
\* received signature, text that is not hex or not ASCII included; it never
\* raises.
VerifyNeverRaises ==
    Verified
        => /\ probe.value.kind = "return"
           /\ probe.value.value \in {PyBool(TRUE), PyBool(FALSE)}

\* C26: verify_signature_or_raise raises WebhookSignatureError, a
\* ValidationError, exactly when verify_signature returns False for the same
\* arguments; in every other case it returns None and raises nothing.
OrRaiseFollowsVerify ==
    VerifiedOrRaised
        => LET a == probe.args
               verified == verify_signature(a.secret, a.raw_payload,
                                            a.received_signature)
           IN  IF verified = Returned(PyBool(FALSE))
               THEN /\ probe.value.kind = "raise"
                    /\ probe.value.exc.cls = "WebhookSignatureError"
                    /\ IsSubclass(probe.value.exc.cls, "ValidationError")
               ELSE probe.value = Returned(PyNone)

-----------------------------------------------------------------------------
(* HovercodesClient construction (hovercode/hovercodes.py).                *)

_DEFAULT_BASE_URL ==
    <<"h", "t", "t", "p", "s", ":", "/", "/", "h", "o", "v", "e", "r", "c",
      "o", "d", "e", ".", "c", "o", "m", "/", "a", "p", "i", "/", "v", "2">>

\* HovercodesClient.__init__: super().__init__ with base_url or the default
HovercodesClient__init__(api_token, base_url, timeout_seconds, max_retries, retry_backoff_seconds) ==
    /\ hovercodes_args' =
           [api_token |-> api_token, base_url |-> base_url,
            timeout_seconds |-> timeout_seconds, max_retries |-> max_retries,
            retry_backoff_seconds |-> retry_backoff_seconds]
    /\ __init__(api_token, IF Truthy(base_url) THEN base_url.s ELSE _DEFAULT_BASE_URL,
                timeout_seconds, max_retries, retry_backoff_seconds)

OptionalBaseUrlArgs == {PyNone, PyStr(<<>>), PyStr(<<"h">>), PyStr(<<"/">>)}

ConstructHovercodes ==
    \E api_token \in ConfigApiTokenArgs, base_url \in OptionalBaseUrlArgs,
       max_retries \in MaxRetriesArgs :
        /\ phase = "new"
        /\ HovercodesClient__init__(api_token, base_url, PyNone, max_retries, PyNone)
        /\ UNCHANGED <<op, facade, peer>>

NextHovercodes == ConstructHovercodes

SpecHovercodes == InitConfig /\ [][NextHovercodes]_vars

\* C29: constructing HovercodesClient with base_url="" raises ValidationError,
\* and constructing it without any API token raises AuthenticationError.
HovercodesConstructionErrors ==
    hovercodes_args # PyNone
        => /\ (hovercodes_args.base_url = PyStr(<<>>)
               /\ (Given(hovercodes_args.api_token) \/ Given(environ.API_TOKEN)))
              => (phase = "failed" /\ init_error.cls = "ValidationError")
           /\ (hovercodes_args.base_url # PyStr(<<>>)
               /\ ~Given(hovercodes_args.api_token) /\ ~Given(environ.API_TOKEN))
              => (phase = "failed" /\ init_error.cls = "AuthenticationError")

-----------------------------------------------------------------------------
(* The facade (hovercode/client.py).                                       *)

\* Accesses of the hovercodes property tried on one facade.
MaxAccesses == 3

\* The n-th HovercodesClient object the facade built
Instance(n) == [t |-> "HovercodesClient", id |-> n]

\* load_dotenv(): variables of the .env file are added, those already set stay
DotenvLoaded(env) ==
    {e \in Environments :
        \A k \in DOMAIN env : env[k] # PyNone => e[k] = env[k]}

\* HovercodeClient.__init__
HovercodeClient__init__(api_token, base_url, timeout_seconds, max_retries, retry_backoff_seconds, load_dotenv) ==
    /\ facade = PyNone
    /\ IF load_dotenv THEN environ' \in DotenvLoaded(environ) ELSE environ' = environ
    /\ facade' = [_api_token |-> api_token, _base_url |-> base_url,
                  _timeout_seconds |-> timeout_seconds, _max_retries |-> max_retries,
                  _retry_backoff_seconds |-> retry_backoff_seconds,
                  _hovercodes |-> PyNone,
                  constructed |-> 0, accesses |-> 0, returned |-> NoResult]
    /\ UNCHANGED <<probe, config_vars, call_vars, session_state, hovercodes_args, op, peer>>

ConstructFacade ==
    \E api_token \in {PyNone, PyStr(<<"t">>)},
       base_url \in {PyNone, PyStr(<<>>), PyStr(<<"h", "/">>)},
       max_retries \in {PyNone, PyInt(0)}, load_dotenv \in BOOLEAN :
        HovercodeClient__init__(api_token, base_url, PyNone, max_retries, PyNone,
                                load_dotenv)

\* Faulty variant of the presence check: the cached sub-client is never found.
NeverCached(f) == TRUE
\* self._hovercodes is None
NotCached(f) == f._hovercodes = PyNone

\* Faulty variant of the property: a construction that raised is cached too.
HovercodesCachingFailure ==
    /\ facade # PyNone
    /\ facade.accesses < MaxAccesses
    /\ pc = "idle"
    /\ IF NotCached(facade)
       THEN /\ HovercodesClient__init__(facade._api_token, facade._base_url,
                                        facade._timeout_seconds, facade._max_retries,
                                        facade._retry_backoff_seconds)
            /\ facade' =
                   IF phase' = "ready"
                   THEN [facade EXCEPT
                            !.accesses = @ + 1,
                            !.constructed = @ + 1,
                            !._hovercodes = Instance(facade.constructed + 1),
                            !.returned = Returned(Instance(facade.constructed + 1))]
                   ELSE [facade EXCEPT
                            !.accesses = @ + 1,
                            !._hovercodes = Instance(0),
                            !.returned = Raised(init_error')]
            /\ UNCHANGED <<op, peer>>
       ELSE /\ facade' = [facade EXCEPT
                             !.accesses = @ + 1,
                             !.returned = Returned(facade._hovercodes)]
            /\ UNCHANGED <<environ, probe, config_vars, call_vars, session_state,
                           hovercodes_args, op, peer>>
\* The hovercodes property
hovercodes ==
    /\ facade # PyNone
    /\ facade.accesses < MaxAccesses
    /\ pc = "idle"
    /\ IF NotCached(facade)
       THEN /\ HovercodesClient__init__(facade._api_token, facade._base_url,
                                        facade._timeout_seconds, facade._max_retries,
                                        facade._retry_backoff_seconds)
            /\ facade' =
                   IF phase' = "ready"
                   THEN [facade EXCEPT
                            !.accesses = @ + 1,
                            !.constructed = @ + 1,
                            !._hovercodes = Instance(facade.constructed + 1),
                            !.returned = Returned(Instance(facade.constructed + 1))]
                   ELSE [facade EXCEPT
                            !.accesses = @ + 1,
                            !.returned = Raised(init_error')]
            /\ UNCHANGED <<op, peer>>
       ELSE /\ facade' = [facade EXCEPT
                             !.accesses = @ + 1,
                             !.returned = Returned(facade._hovercodes)]
            /\ UNCHANGED <<environ, probe, config_vars, call_vars, session_state,
                           hovercodes_args, op, peer>>

\* Faulty variant of the facade's close: the sub-client is never closed.
FacadeCloseSkippingSubclient ==
    /\ facade # PyNone
    /\ pc = "idle"
    /\ pc' = "done"
    /\ result' = Returned(PyNone)
    /\ UNCHANGED <<environ, probe, config_vars, call, attempt, response, wire,
                   requests_issued, sleeps, outcomes, session_state, upper_vars>>
\* HovercodeClient.close: closes the sub-client when there is one
HovercodeClient_close ==
    /\ facade # PyNone
    /\ IF facade._hovercodes # PyNone
       THEN close
       ELSE /\ pc = "idle"
            /\ pc' = "done"
            /\ result' = Returned(PyNone)
            /\ UNCHANGED <<environ, probe, config_vars, call, attempt, response, wire,
                           requests_issued, sleeps, outcomes, session_state,
                           upper_vars>>

NextFacade ==
    \/ ConstructFacade
    \/ hovercodes
    \/ HovercodeClient_close
    \/ Return

SpecFacade == Init /\ [][NextFacade]_vars

\* C30: no sub-client exists before the first access of the hovercodes
\* property; over any sequence of accesses at most one HovercodesClient is
\* constructed, every access that returns gives that one instance, and it was
\* built with the api_token, base_url, timeout_seconds, max_retries and
\* retry_backoff_seconds the facade stores.
LazyCachedSubclient ==
    facade # PyNone
        => /\ facade.accesses = 0
              => (facade._hovercodes = PyNone /\ hovercodes_args = PyNone
                  /\ phase = "new")
           /\ facade.constructed <= 1
           /\ facade.returned.kind = "return"
              => /\ facade.returned.value = [t |-> "HovercodesClient", id |-> 1]
                 /\ facade._hovercodes = facade.returned.value
                 /\ phase = "ready"
           /\ hovercodes_args # PyNone
              => hovercodes_args =
                     [api_token |-> facade._api_token, base_url |-> facade._base_url,
                      timeout_seconds |-> facade._timeout_seconds,
                      max_retries |-> facade._max_retries,
                      retry_backoff_seconds |-> facade._retry_backoff_seconds]

LazyCachedSubclientWitness ==
    /\ facade # PyNone
    /\ facade.accesses = 3
    /\ facade.constructed = 1
    /\ facade.returned = Returned(Instance(1))
    /\ hovercodes_args.base_url = PyStr(<<"h", "/">>)

-----------------------------------------------------------------------------
(* Resource operations (hovercode/hovercodes.py, hovercode/models.py).     *)

\* A dict built key by key: the fields that are not None
PyItems(fields) ==
    [t |-> "dict",
     items |-> [k \in {f \in DOMAIN fields : fields[f] # PyNone} |-> fields[k]]]
\* params or None
OrNone(d) == IF DOMAIN d.items = {} THEN PyNone ELSE d
PyListOf(items) == [t |-> "list", items |-> items]
\* An Enum member with the given value
PyEnum(raw) == [t |-> "enum", value |-> raw]
TagInput(title, id) == [t |-> "TagInput", title |-> title, id |-> id]

PathCreate == <<"h", "o", "v", "e", "r", "c", "o", "d", "e", "/", "c", "r", "e", "a",
      "t", "e", "/">>
PathWorkspace == <<"w", "o", "r", "k", "s", "p", "a", "c", "e", "/">>
PathHovercodes == <<"/", "h", "o", "v", "e", "r", "c", "o", "d", "e", "s", "/">>
PathHovercode == <<"h", "o", "v", "e", "r", "c", "o", "d", "e", "/">>
PathActivity == <<"/", "a", "c", "t", "i", "v", "i", "t", "y", "/">>
PathUpdate == <<"/", "u", "p", "d", "a", "t", "e", "/">>
PathTagsAdd == <<"/", "t", "a", "g", "s", "/", "a", "d", "d", "/">>
PathDelete == <<"/", "d", "e", "l", "e", "t", "e", "/">>

UnexpectedPrefix ==
    <<"U", "n", "e", "x", "p", "e", "c", "t", "e", "d", " ", "r", "e", "s",
      "p", "o", "n", "s", "e", " ", "t", "y", "p", "e", " ", "f", "r", "o",
      "m", " ">>
PageSizeMessage ==
    <<"p", "a", "g", "e", "_", "s", "i", "z", "e", " ", "m", "u", "s", "t",
      " ", "b", "e", " ", "<", "=", " ", "2", "0", "0", ".">>
UpdateMessage ==
    <<"u", "p", "d", "a", "t", "e", "(", ")", " ", "r", "e", "q", "u", "i",
      "r", "e", "s", " ", "a", "t", " ", "l", "e", "a", "s", "t", " ", "o",
      "n", "e", " ", "f", "i", "e", "l", "d", " ", "t", "o", " ", "u", "p",
      "d", "a", "t", "e", ".">>
TagsMessage ==
    <<"a", "d", "d", "_", "t", "a", "g", "s", "(", ")", " ", "r", "e", "q",
      "u", "i", "r", "e", "s", " ", "a", " ", "n", "o", "n", "-", "e", "m",
      "p", "t", "y", " ", "t", "a", "g", "s", " ", "l", "i", "s", "t", ".">>
TagInputMessage ==
    <<"T", "a", "g", "I", "n", "p", "u", "t", " ", "r", "e", "q", "u", "i",
      "r", "e", "s", " ", "a", "t", " ", "l", "e", "a", "s", "t", " ", "o",
      "n", "e", " ", "o", "f", ":", " ", "t", "i", "t", "l", "e", ",", " ",
      "i", "d", ".">>
EnumMessage ==
    <<"E", "n", "u", "m", " ", "v", "a", "l", "u", "e", " ", "m", "u", "s",
      "t", " ", "b", "e", " ", "a", " ", "s", "t", "r", "i", "n", "g", ".">>

OpNameText(name) ==
    CASE name = "create" ->
        <<"c", "r", "e", "a", "t", "e">>
      [] name = "list_for_workspace" ->
        <<"l", "i", "s", "t", "_", "f", "o", "r", "_", "w", "o", "r", "k",
          "s", "p", "a", "c", "e">>
      [] name = "get_hovercode" ->
        <<"g", "e", "t", "_", "h", "o", "v", "e", "r", "c", "o", "d", "e">>
      [] name = "get_activity" ->
        <<"g", "e", "t", "_", "a", "c", "t", "i", "v", "i", "t", "y">>
      [] name = "update" ->
        <<"u", "p", "d", "a", "t", "e">>
      [] name = "add_tags" ->
        <<"a", "d", "d", "_", "t", "a", "g", "s">>
      [] name = "delete_hovercode" ->
        <<"d", "e", "l", "e", "t", "e", "_", "h", "o", "v", "e", "r", "c",
          "o", "d", "e">>

\* raise ValidationError(message=..., status_code=None, response_data=...)
LocalError(message, response_data) ==
    ApiError("ValidationError", message, PyNone, response_data)

\* _normalize_str_enum: the string, the value of the Enum, or ValidationError
_normalize_str_enum(value) ==
    IF value.t = "enum"
    THEN IF value.value.t # "str"
         THEN Raised(LocalError(EnumMessage, PyItems([value |-> value.value])))
         ELSE Returned(value.value)
    ELSE Returned(value)

\* TagInput.to_request_dict
to_request_dict(tag) ==
    IF tag.title = PyNone /\ tag.id = PyNone
    THEN Raised(LocalError(TagInputMessage, PyNone))
    ELSE Returned(PyItems([title |-> tag.title, id |-> tag.id]))

\* One element of tag_payload: tag.to_request_dict() or dict(tag)
TagPayload(tag) ==
    IF tag.t = "TagInput" THEN to_request_dict(tag) ELSE Returned(tag)

MaxPageSize == 200

\* Faulty variant of the page size test: 200 itself is refused.
PageSizeAtLeastMax(page_size) == page_size # PyNone /\ page_size.v >= MaxPageSize
\* page_size is not None and page_size > 200
PageSizeTooLarge(page_size) == page_size # PyNone /\ page_size.v > MaxPageSize

\* Faulty variant of the type test: a list passes as well.
ExpectObjectOrList(name, res) ==
    IF res.kind = "return" /\ res.value.t \notin {"dict", "list"}
    THEN Raised(LocalError(UnexpectedPrefix \o OpNameText(name) \o <<"(", ")", ".">>,
                           res.value))
    ELSE res
\* if not isinstance(result, dict): raise ValidationError(...); return result
ExpectObject(name, res) ==
    IF res.kind = "return" /\ res.value.t # "dict"
    THEN Raised(LocalError(UnexpectedPrefix \o OpNameText(name) \o <<"(", ")", ".">>,
                           res.value))
    ELSE res

\* The operation raised before it called a verb method.
Rejected(name, args, exc) ==
    /\ phase = "ready"
    /\ pc = "idle"
    /\ op' = [name |-> name, args |-> args, state |-> "done", verb_calls |-> 0,
              requests |-> 0, verb_result |-> NoResult, outcome |-> Raised(exc)]
    /\ UNCHANGED <<environ, probe, config_vars, call_vars, session_state,
                   hovercodes_args, facade, peer>>

\* The operation called self.post / self.put / super().get / super().delete.
Calls(name, args, method, endpoint, params, json_data) ==
    /\ op' = [name |-> name, args |-> args, state |-> "calling", verb_calls |-> 1,
              requests |-> 0, verb_result |-> NoResult, outcome |-> NoResult]
    /\ _request(method, endpoint, params, json_data, PyNone, PyNone, PyNone)
    /\ UNCHANGED <<hovercodes_args, facade, peer>>

QrCodeIds == {<<"q">>}
QrTypeArgs ==
    {PyNone, PyStr(<<"L", "i", "n", "k">>), PyEnum(PyStr(<<"T", "e", "x", "t">>)),
     PyEnum(PyInt(1))}

\* create, with workspace, qr_data, qr_type and dynamic passed and the other
\* optional arguments left at None.
create ==
    \E qr_type \in QrTypeArgs, dynamic \in {PyNone, PyBool(FALSE)} :
        LET args == [workspace |-> PyStr(<<"w">>), qr_data |-> PyStr(<<"d">>),
                     qr_type |-> qr_type, dynamic |-> dynamic]
            normalized == IF qr_type = PyNone THEN Returned(PyNone)
                          ELSE _normalize_str_enum(qr_type)
        IN  IF normalized.kind = "raise"
            THEN Rejected("create", args, normalized.exc)
            ELSE Calls("create", args, MethodPOST, PathCreate, PyNone,
                       PyItems([workspace |-> args.workspace, qr_data |-> args.qr_data,
                                qr_type |-> normalized.value, dynamic |-> dynamic]))

list_for_workspace ==
    \E q \in {PyNone, PyStr(<<"t">>)}, page \in {PyNone, PyInt(0)} :
        LET args == [workspace_id |-> <<"w">>, q |-> q, page |-> page]
        IN  Calls("list_for_workspace", args, MethodGET,
                  PathWorkspace \o args.workspace_id \o PathHovercodes,
                  OrNone(PyItems([q |-> q, page |-> page])), PyNone)

get_hovercode ==
    \E qr_code_id \in QrCodeIds :
        Calls("get_hovercode", [qr_code_id |-> qr_code_id], MethodGET,
              PathHovercode \o qr_code_id \o <<"/">>, PyNone, PyNone)

get_activity ==
    \E qr_code_id \in QrCodeIds, page \in {PyNone, PyInt(2)},
       page_size \in {PyNone, PyInt(0), PyInt(MaxPageSize), PyInt(MaxPageSize + 1)} :
        LET args == [qr_code_id |-> qr_code_id, page |-> page, page_size |-> page_size]
        IN  IF PageSizeTooLarge(page_size)
            THEN Rejected("get_activity", args,
                          LocalError(PageSizeMessage, PyItems([page_size |-> page_size])))
            ELSE Calls("get_activity", args, MethodGET,
                       PathHovercode \o qr_code_id \o PathActivity,
                       OrNone(PyItems([page |-> page, page_size |-> page_size])), PyNone)

update ==
    \E qr_code_id \in QrCodeIds, qr_data \in {PyNone, PyStr(<<"d">>)},
       display_name \in {PyNone, PyStr(<<>>)}, gps_tracking \in {PyNone, PyBool(FALSE)} :
        LET args == [qr_code_id |-> qr_code_id, qr_data |-> qr_data,
                     display_name |-> display_name, gps_tracking |-> gps_tracking]
        IN  IF qr_data = PyNone /\ display_name = PyNone /\ gps_tracking = PyNone
            THEN Rejected("update", args, LocalError(UpdateMessage, PyNone))
            ELSE Calls("update", args, MethodPUT,
                       PathHovercode \o qr_code_id \o PathUpdate, PyNone,
                       PyItems([qr_data |-> qr_data, display_name |-> display_name,
                                gps_tracking |-> gps_tracking]))

TagLists ==
    {<<>>,
     <<TagInput(PyStr(<<"m">>), PyNone)>>,
     <<TagInput(PyNone, PyNone)>>,
     <<TagInput(PyNone, PyStr(<<"i">>)), PyItems([title |-> PyStr(<<"c">>)])>>,
     <<PyItems([title |-> PyStr(<<"c">>)]), TagInput(PyNone, PyNone)>>,
     <<PyItems([title |-> PyNone])>>}

add_tags ==
    \E qr_code_id \in QrCodeIds, tags \in TagLists :
        LET args == [qr_code_id |-> qr_code_id, tags |-> tags]
            bad == {i \in 1..Len(tags) : TagPayload(tags[i]).kind = "raise"}
        IN  IF tags = <<>>
            THEN Rejected("add_tags", args, LocalError(TagsMessage, PyNone))
            ELSE IF bad # {}
            THEN Rejected("add_tags", args,
                          TagPayload(tags[CHOOSE i \in bad : \A j \in bad : i <= j]).exc)
            ELSE Calls("add_tags", args, MethodPOST,
                       PathHovercode \o qr_code_id \o PathTagsAdd, PyNone,
                       PyListOf([i \in 1..Len(tags) |-> TagPayload(tags[i]).value]))

delete_hovercode ==
    \E qr_code_id \in QrCodeIds :
        Calls("delete_hovercode", [qr_code_id |-> qr_code_id], MethodDELETE,
              PathHovercode \o qr_code_id \o PathDelete, PyNone, PyNone)

\* The verb method returned or raised: the operation checks the type of the
\* value and returns, or lets the exception through.
ResourceReturn ==
    /\ op # PyNone
    /\ op.state = "calling"
    /\ PopFrame
    /\ op' = [op EXCEPT !.state = "done", !.requests = requests_issued,
                        !.verb_result = result,
                        !.outcome = ExpectObject(op.name, result)]
    /\ UNCHANGED <<hovercodes_args, facade, peer>>

InitResource ==
    /\ Untouched(EmptyEnvironment)
    /\ probe = PyNone

ConstructResource ==
    \E max_retries \in {PyInt(0), PyInt(1)} :
        /\ phase = "new"
        /\ HovercodesClient__init__(PyStr(<<"t">>), PyNone, PyNone, max_retries,
                                    PyFloat(0))
        /\ UNCHANGED <<op, facade, peer>>

NextResource ==
    \/ ConstructResource
    \/ create
    \/ list_for_workspace
    \/ get_hovercode
    \/ get_activity
    \/ update
    \/ add_tags
    \/ delete_hovercode
    \/ SessionRequest
    \/ RequestException
    \/ ResponseReceived
    \/ SleepReturns
    \/ ResourceReturn

SpecResource == InitResource /\ [][NextResource]_vars

\* The inputs the operations refuse: nothing to update, no tags or a TagInput
\* without title and id, a page size above 200, an Enum whose value is no string.
NothingToUpdate ==
    /\ op.name = "update"
    /\ op.args.qr_data = PyNone
    /\ op.args.display_name = PyNone
    /\ op.args.gps_tracking = PyNone
NoUsableTags ==
    /\ op.name = "add_tags"
    /\ \/ Len(op.args.tags) = 0
       \/ \E i \in 1..Len(op.args.tags) :
              /\ op.args.tags[i].t = "TagInput"
              /\ op.args.tags[i].title = PyNone
              /\ op.args.tags[i].id = PyNone
PageTooLong ==
    /\ op.name = "get_activity"
    /\ op.args.page_size # PyNone
    /\ op.args.page_size.v > 200
BadEnum ==
    /\ op.name = "create"
    /\ op.args.qr_type.t = "enum"
    /\ op.args.qr_type.value.t # "str"
LocallyInvalid == NothingToUpdate \/ NoUsableTags \/ PageTooLong \/ BadEnum

\* C27: update() with none of qr_data, display_name, gps_tracking, add_tags()
\* with an empty list or with a TagInput that has neither title nor id, and
\* get_activity() with page_size > 200 raise ValidationError without calling a
\* verb method and with no request issued; page_size = 200 is accepted.
LocalValidationBeforeNetwork ==
    op # PyNone
        => /\ (NothingToUpdate \/ NoUsableTags \/ PageTooLong)
              => /\ op.state = "done"
                 /\ op.outcome.kind = "raise"
                 /\ op.outcome.exc.cls = "ValidationError"
                 /\ op.verb_calls = 0
                 /\ op.requests = 0
                 /\ pc = "idle"
                 /\ requests_issued = 0
           /\ (op.name = "get_activity" /\ op.args.page_size = PyInt(200))
              => op.verb_calls = 1

LocalValidationBeforeNetworkWitness ==
    /\ op # PyNone
    /\ op.name = "add_tags"
    /\ Len(op.args.tags) = 2
    /\ op.args.tags[2] = TagInput(PyNone, PyNone)
    /\ op.state = "done"
    /\ op.outcome.exc.cls = "ValidationError"
    /\ op.requests = 0

\* The verb method of each operation.
VerbOf(name) ==
    CASE name \in {"create", "add_tags"} -> <<"P", "O", "S", "T">>
      [] name = "update" -> <<"P", "U", "T">>
      [] name = "delete_hovercode" -> <<"D", "E", "L", "E", "T", "E">>
      [] OTHER -> <<"G", "E", "T">>

\* C28: an operation that passes local validation calls one verb method, once;
\* when the call returns a value that is not an object the operation raises
\* ValidationError with status_code None and the value as response_data, when it
\* returns an object the operation returns it, and when it raises the
\* operation raises that same error.
OneVerbCallAndObjectResult ==
    op # PyNone
        => /\ op.verb_calls = IF LocallyInvalid THEN 0 ELSE 1
           /\ op.state = "calling"
              => (pc # "idle" /\ call.method = VerbOf(op.name))
           /\ (op.state = "done" /\ op.verb_calls = 1)
              => LET r == op.verb_result
                 IN  /\ r.kind \in {"return", "raise"}
                     /\ r.kind = "raise" => op.outcome = r
                     /\ (r.kind = "return" /\ r.value.t = "dict") => op.outcome = r
                     /\ (r.kind = "return" /\ r.value.t # "dict")
                        => /\ op.outcome.kind = "raise"
                           /\ op.outcome.exc.cls = "ValidationError"
                           /\ op.outcome.exc.status_code = PyNone
                           /\ op.outcome.exc.response_data = r.value

OneVerbCallAndObjectResultWitness ==
    /\ op # PyNone
    /\ op.name = "delete_hovercode"
    /\ op.state = "done"
    /\ op.requests = 2
    /\ op.verb_result = Returned(PyList(1))
    /\ op.outcome.kind = "raise"
    /\ op.outcome.exc.response_data = PyList(1)

-----------------------------------------------------------------------------
(* Properties of one verb call as a whole (BaseClient._request).           *)

\* C31: within one call sleeps and requests alternate: no sleep before the
\* first request, one sleep between two consecutive requests, none after the
\* last, so a call that ended after k requests slept k-1 times; the j-th sleep
\* (from 0) lasts retry_backoff_seconds * 2^j.
SleepsBetweenAttempts ==
    /\ pc \in {"attempt", "sleeping"} => Len(sleeps) = requests_issued
    /\ pc = "inflight" => Len(sleeps) = requests_issued - 1
    /\ pc = "done" => Len(sleeps) = requests_issued - 1
    /\ \A j \in 0..(Len(sleeps) - 1) : sleeps[j + 1] = _retry_backoff_seconds * 2 ^ j

\* C32: a call makes at most max_retries + 1 attempts, and when it ends it has
\* returned a payload or raised ApiError or one of its subclasses.
EndsWithPayloadOrTypedError ==
    /\ pc # "idle" => requests_issued <= _max_retries + 1
    /\ pc # "idle" => attempt <= _max_retries + 1
    /\ pc = "done"
           => \/ result.kind = "return"
              \/ /\ result.kind = "raise"
                 /\ IsSubclass(result.exc.cls, "ApiError")

\* C33: once the client is constructed no step changes its base URL, default
\* timeout, max_retries, retry_backoff_seconds or the Accept and Authorization
\* headers of its session, whether the step starts a call, issues or retries a
\* request, sleeps, ends a call with a value or an error, or closes the client;
\* and the timeout of every new call is its own override or, without one, the
\* default of the client, whatever the calls before it passed.
ConfigurationReadOnly ==
    [][ /\ phase = "ready"
           => UNCHANGED <<phase, _base_url, _timeout_seconds, _max_retries,
                          _retry_backoff_seconds, session_headers>>
        /\ (pc = "idle" /\ call' # PyNone)
           => call'.timeout = IF call'.timeout_seconds = PyNone THEN _timeout_seconds
                              ELSE call'.timeout_seconds.ms
      ]_vars

ConfigurationReadOnlyWitness ==
    /\ phase = "ready"
    /\ session_state.close_calls >= 1
    /\ session_state.used
    /\ pc = "inflight"
    /\ attempt = 1
    /\ Len(sleeps) = 1
    /\ call.timeout_seconds = PyNone
    /\ wire.timeout = _timeout_seconds
    /\ _timeout_seconds = DefaultTimeoutSeconds
    /\ session_headers.Authorization = PyStr(TokenPrefix \o <<"t">>)

\* C37: every attempt of one call passes the same method, URL, query
\* parameters, JSON body, form data, files, headers and timeout to the session
\* as the attempt before it, and these are the values fixed when the call
\* started; the attempt index enters only the backoff delay.
SameRequestOnEveryAttempt ==
    [][ /\ (wire # PyNone /\ wire' # PyNone) => wire' = wire
        /\ wire' # PyNone
           => /\ wire'.method = call.method
              /\ wire'.url = call.url
              /\ wire'.params = call.params
              /\ wire'.data = call.data
              /\ wire'.files = call.files
              /\ wire'.timeout = call.timeout
        /\ (pc # "idle" /\ pc' # "idle") => call' = call
      ]_vars

SameRequestOnEveryAttemptWitness ==
    /\ pc = "inflight"
    /\ attempt = 1
    /\ requests_issued = 2
    /\ outcomes = <<"exception">>
    /\ wire.method = MethodPOST
    /\ wire.url = <<"h", "/", "x">>
    /\ wire.json = Obj("json_data")
    /\ wire.headers = PyStr(ApplicationJson)
    /\ wire.files = PyNone

-----------------------------------------------------------------------------
(* Construction over a session handed in by the caller.                    *)

\* Headers a caller may have set on the session before handing it in.
InjectedHeaders ==
    { FreshHeaders,
      [Accept |-> PyStr(<<"t", "e", "x", "t">>),
       Authorization |-> PyStr(<<"B", "a", "s", "i", "c", " ", "x">>)] }

\* Before construction: session_headers and session_state are those of the
\* caller's session, on which nothing has been requested yet.
InitInjected ==
    /\ environ \in ConfigEnvironments
    /\ probe = PyNone
    /\ init_args = PyNone
    /\ phase = "new"
    /\ init_error = PyNone
    /\ _base_url = <<>>
    /\ _timeout_seconds = 0
    /\ _max_retries = 0
    /\ _retry_backoff_seconds = 0
    /\ session_headers \in InjectedHeaders
    /\ pc = "idle"
    /\ call = PyNone
    /\ attempt = 0
    /\ response = NoResponse
    /\ wire = PyNone
    /\ requests_issued = 0
    /\ sleeps = <<>>
    /\ outcomes = <<>>
    /\ result = NoResult
    /\ session_state = NewSession
    /\ hovercodes_args = PyNone
    /\ op = PyNone
    /\ facade = PyNone
    /\ peer = PyNone

\* BaseClient(api_token=..., base_url=..., session=s): `session or
\* requests.Session()` keeps s, whose headers __init__ then updates.
ConstructWithSession ==
    \E api_token \in ConfigApiTokenArgs, base_url \in {<<>>, <<"h">>} :
        /\ phase = "new"
        /\ __init__(api_token, base_url, PyNone, PyNone, PyNone)
        /\ UNCHANGED upper_vars

NextInjected == ConstructWithSession

SpecInjected == InitInjected /\ [][NextInjected]_vars

\* C38: a construction that raises leaves the headers of the caller's session
\* as they were; it raises ValidationError when base_url is empty, also when no
\* token can be resolved, and AuthenticationError otherwise.
FailedConstructionLeavesSession ==
    [][phase' = "failed"
          => /\ session_headers' = session_headers
             /\ session_state' = session_state
             /\ init_error'.cls =
                    IF init_args'.base_url = <<>> THEN "ValidationError"
                    ELSE "AuthenticationError"
             /\ init_error'.cls = "AuthenticationError"
                    => ~Truthy(init_args'.api_token) /\ ~Truthy(environ.API_TOKEN)
      ]_vars

FailedConstructionLeavesSessionWitness ==
    /\ phase = "failed"
    /\ init_args.base_url = <<>>
    /\ init_args.api_token = PyNone
    /\ environ.API_TOKEN = PyNone
    /\ init_error.cls = "ValidationError"
    /\ session_headers.Authorization = PyStr(<<"B", "a", "s", "i", "c", " ", "x">>)

-----------------------------------------------------------------------------
(* Closing the facade (HovercodeClient.close).                             *)

\* A step of HovercodeClient.close: the only step of the facade that ends a
\* call frame.
FacadeCloseStep == facade # PyNone /\ pc = "idle" /\ pc' = "done"

\* C35: close() of the facade closes the session of the sub-client exactly when
\* a sub-client is cached; when none is cached, token or no token, it builds no
\* client, changes no session, issues no request and returns None; in both
\* cases it keeps the cache, so an access after a close returns the cached
\* instance and builds nothing.
FacadeCloseKeepsCache ==
    [][ /\ FacadeCloseStep
           => /\ result' = Returned(PyNone)
              /\ facade' = facade
              /\ requests_issued' = requests_issued
              /\ wire' = wire
              /\ UNCHANGED <<environ, config_vars>>
              /\ session_state'.close_calls =
                     session_state.close_calls
                         + (IF facade._hovercodes # PyNone THEN 1 ELSE 0)
              /\ facade._hovercodes = PyNone => session_state' = session_state
        /\ (/\ facade # PyNone
            /\ facade' # PyNone
            /\ facade'.accesses = facade.accesses + 1
            /\ facade._hovercodes # PyNone
            /\ session_state.close_calls >= 1)
           => /\ facade'.returned = Returned(facade._hovercodes)
              /\ facade'._hovercodes = facade._hovercodes
              /\ facade'.constructed = facade.constructed
              /\ session_state' = session_state
      ]_vars

\* close() has returned on a facade that was never accessed and has no token.
FacadeCloseKeepsCacheWitness ==
    /\ facade # PyNone
    /\ facade.accesses = 0
    /\ facade._api_token = PyNone
    /\ ~Truthy(environ.API_TOKEN)
    /\ phase = "new"
    /\ pc = "done"
    /\ result = Returned(PyNone)
    /\ session_state = NewSession

-----------------------------------------------------------------------------
(* The facade in an environment that changes between accesses.             *)

\* A token exported after the facade was constructed.
LateToken == PyStr(<<"n">>)

\* The caller sets HOVERCODE_API_TOKEN in os.environ after an access of the
\* hovercodes property has raised; os.getenv (base_client.py line 129) reads
\* the environment anew at every construction.
SetEnvToken ==
    /\ facade # PyNone
    /\ facade.returned.kind = "raise"
    /\ environ.API_TOKEN # LateToken
    /\ environ' = [environ EXCEPT !.API_TOKEN = LateToken]
    /\ UNCHANGED <<probe, config_vars, call_vars, session_state, upper_vars>>

NextFacadeEnv ==
    \/ ConstructFacade
    \/ hovercodes
    \/ HovercodeClient_close
    \/ Return
    \/ SetEnvToken

SpecFacadeEnv == Init /\ [][NextFacadeEnv]_vars

\* The facade f finds a token in the environment env: its own, or the variable.
TokenAvailable(f, env) == Truthy(f._api_token) \/ Truthy(env.API_TOKEN)

\* C36: constructing the facade validates nothing and builds no sub-client,
\* token or no token; an access that finds no sub-client cached builds one from
\* the environment of that moment: without a token it raises
\* AuthenticationError and leaves the cache empty, with a token, also one set
\* after earlier failed accesses, it caches and returns the sub-client.
FacadeValidatesOnAccess ==
    [][ /\ (facade = PyNone /\ facade' # PyNone)
           => /\ facade'._hovercodes = PyNone
              /\ facade'.constructed = 0
              /\ facade'.returned = NoResult
              /\ UNCHANGED <<config_vars, session_state, hovercodes_args>>
        /\ (/\ facade # PyNone
            /\ facade' # PyNone
            /\ facade'.accesses = facade.accesses + 1
            /\ facade._hovercodes = PyNone)
           => IF TokenAvailable(facade, environ)
              THEN /\ facade'.returned.kind = "return"
                   /\ facade'._hovercodes = facade'.returned.value
                   /\ facade'.constructed = facade.constructed + 1
                   /\ phase' = "ready"
              ELSE /\ facade'.returned.kind = "raise"
                   /\ facade'.returned.exc.cls = "AuthenticationError"
                   /\ facade'._hovercodes = PyNone
                   /\ facade'.constructed = facade.constructed
      ]_vars

\* An access succeeded on a facade without a token of its own, over the token
\* exported after an earlier access had raised.
FacadeValidatesOnAccessWitness ==
    /\ facade # PyNone
    /\ facade._api_token = PyNone
    /\ environ.API_TOKEN = LateToken
    /\ facade.accesses >= 2
    /\ facade.constructed = 1
    /\ facade.returned = Returned(Instance(1))
    /\ session_headers.Authorization = PyStr(TokenPrefix \o <<"n">>)

-----------------------------------------------------------------------------
(* Two calls on one client: the call of call_vars, and a second one issued *)
(* from another thread while the first is under way.  The locals of        *)
(* _request (url, timeout, attempt, response) live in the frame of each    *)
(* invocation; the client's fields and its session are shared.             *)

\* Faulty variant of the loop variable: both calls count in one place.
SharedAttempt == attempt
\* The loop variable of the second call, a local of its own _request frame
PeerAttempt == peer.attempt

\* What session.request hands to the second call.
PeerOutcomes ==
    { TransportFailure(<<"b", "o", "o", "m">>), HttpResponse(200, BodyOk),
      HttpResponse(404, BodyDetail), HttpResponse(503, BodyText) }

\* How _request ends on the outcome resp once no retry is taken.
EndOn(resp, method, url) ==
    IF resp.kind = "exception"
    THEN Raised(NetworkErrorExhausted(method, url, resp.desc))
    ELSE IF IsSuccess(resp.status_code)
    THEN Returned(_parse_response_data(resp))
    ELSE Raised(_map_http_error(resp.status_code, _parse_response_data(resp), method, url))

\* The outcome resp of attempt a is retried.
Retried(resp, a) ==
    /\ RetryAllowed(a)
    /\ \/ resp.kind = "exception"
       \/ resp.status_code \in _RETRYABLE_STATUS_CODES

\* A second thread calls self.get("y"): _request up to the head of its loop.
PeerCall ==
    /\ phase = "ready"
    /\ peer = PyNone
    /\ peer' = [pc |-> IF InRange(0) THEN "attempt" ELSE "done",
                method |-> MethodGET,
                url |-> Url(<<"y">>),
                timeout |-> Timeout(PyNone),
                attempt |-> 0,
                response |-> NoResponse,
                requests_issued |-> 0,
                sleeps |-> <<>>,
                outcomes |-> <<>>,
                result |-> IF InRange(0) THEN NoResult
                           ELSE Raised(NetworkErrorLoopExit(MethodGET, Url(<<"y">>)))]
    /\ UNCHANGED <<environ, probe, config_vars, call_vars, session_state,
                   hovercodes_args, op, facade>>

\* The second call reaches self._session.request(...).
PeerSessionRequest ==
    /\ peer # PyNone
    /\ peer.pc = "attempt"
    /\ peer' = [peer EXCEPT !.pc = "inflight", !.requests_issued = @ + 1]
    /\ session_state' = [session_state EXCEPT !.pool = "connected", !.used = TRUE]
    /\ UNCHANGED <<environ, probe, config_vars, call_vars, hovercodes_args, op, facade>>

\* session.request of the second call raised or returned: retry with a
\* backoff, or end the call.
PeerOutcome ==
    \E resp \in PeerOutcomes :
        LET delay == _sleep_backoff(PeerAttempt)
        IN  /\ peer # PyNone
            /\ peer.pc = "inflight"
            /\ peer' =
                   IF ~Retried(resp, PeerAttempt)
                   THEN [peer EXCEPT !.response = resp,
                                     !.outcomes = Append(@, resp.kind),
                                     !.pc = "done",
                                     !.result = EndOn(resp, peer.method, peer.url)]
                   ELSE IF delay < 0
                   THEN [peer EXCEPT !.response = resp,
                                     !.outcomes = Append(@, resp.kind),
                                     !.pc = "done",
                                     !.result = Raised(PyException("ValueError"))]
                   ELSE [peer EXCEPT !.response = resp,
                                     !.outcomes = Append(@, resp.kind),
                                     !.pc = "sleeping",
                                     !.sleeps = Append(@, delay)]
            /\ UNCHANGED <<environ, probe, config_vars, call_vars, session_state,
                           hovercodes_args, op, facade>>

\* time.sleep of the second call returned.
PeerSleepReturns ==
    /\ peer # PyNone
    /\ peer.pc = "sleeping"
    /\ peer' =
           IF InRange(PeerAttempt + 1)
           THEN [peer EXCEPT !.attempt = PeerAttempt + 1, !.pc = "attempt"]
           ELSE [peer EXCEPT !.attempt = PeerAttempt + 1, !.pc = "done",
                             !.result = Raised(NetworkErrorLoopExit(peer.method, peer.url))]
    /\ UNCHANGED <<environ, probe, config_vars, call_vars, session_state,
                   hovercodes_args, op, facade>>

\* The second call hands its value or exception to its caller.
PeerReturn ==
    /\ peer # PyNone
    /\ peer.pc = "done"
    /\ peer' = PyNone
    /\ UNCHANGED <<environ, probe, config_vars, call_vars, session_state,
                   hovercodes_args, op, facade>>

NextTwoCalls ==
    \/ ConstructClose
    \/ get
    \/ SessionRequest
    \/ RequestException
    \/ ResponseReceived
    \/ SleepReturns
    \/ Return
    \/ PeerCall
    \/ PeerSessionRequest
    \/ PeerOutcome
    \/ PeerSleepReturns
    \/ PeerReturn

SpecTwoCalls == InitClose /\ [][NextTwoCalls]_vars

\* What the claim expects of an outcome resp of attempt a: a retry when a is
\* below max_retries and resp is a transport failure or a retryable status.
ClaimedRetry(resp, a) ==
    /\ a < _max_retries
    /\ \/ resp.kind = "exception"
       \/ resp.status_code \in {500, 502, 503, 504}

\* C34: two calls under way on one client have retry loops of their own: a
\* step of one leaves the frame of the other as it is; each counts its own
\* attempts, so whether it retries, how long it sleeps and how it ends is
\* fixed by its own attempt index and its own latest outcome, wherever the
\* other call stands; and while one call sleeps the other can issue its
\* request and go on.
IndependentRetryLoops ==
    [][ /\ peer' # peer => UNCHANGED call_vars
        /\ call_vars' # call_vars => peer' = peer
        /\ (peer # PyNone /\ peer.pc = "inflight" /\ peer' # peer)
           => IF ClaimedRetry(peer'.response, peer.attempt)
              THEN /\ peer'.pc = "sleeping"
                   /\ peer'.sleeps
                          = Append(peer.sleeps, _retry_backoff_seconds * 2 ^ peer.attempt)
                   /\ peer'.attempt = peer.attempt
              ELSE /\ peer'.pc = "done"
                   /\ peer'.result = EndOn(peer'.response, peer.method, peer.url)
                   /\ peer'.sleeps = peer.sleeps
        /\ (pc = "inflight" /\ pc' # pc)
           => IF ClaimedRetry(response', attempt)
              THEN /\ pc' = "sleeping"
                   /\ sleeps' = Append(sleeps, _retry_backoff_seconds * 2 ^ attempt)
                   /\ attempt' = attempt
              ELSE /\ pc' = "done"
                   /\ result' = EndOn(response', call.method, call.url)
                   /\ sleeps' = sleeps
        /\ (peer # PyNone /\ peer.pc = "sleeping" /\ peer' # peer)
           => /\ peer'.attempt = peer.attempt + 1
              /\ peer'.pc = "attempt"
        /\ (peer # PyNone /\ peer' # PyNone /\ peer.pc = "attempt" /\ peer' # peer)
           => /\ peer'.pc = "inflight"
              /\ peer'.requests_issued = peer.attempt + 1
        /\ (pc = "sleeping" /\ peer # PyNone /\ peer.pc = "attempt")
           => ENABLED PeerSessionRequest
        /\ (peer # PyNone /\ peer.pc = "sleeping" /\ pc = "attempt")
           => ENABLED SessionRequest
        /\ (pc = "sleeping" /\ peer # PyNone /\ peer.pc = "done")
           => ENABLED PeerReturn
      ]_vars

\* Both calls are in their retry loops at different attempt indices: the first
\* sleeps after its attempt 0 while the second has its attempt 1 in flight.
IndependentRetryLoopsWitness ==
    /\ pc = "sleeping"
    /\ attempt = 0
    /\ sleeps = <<500>>
    /\ requests_issued = 1
    /\ peer # PyNone
    /\ peer.pc = "inflight"
    /\ peer.attempt = 1
    /\ peer.sleeps = <<500>>
    /\ peer.requests_issued = 2

====
